---- MODULE Spec2Model ----
(***************************************************************************)
(* Query evaluation pipeline of the object database engine: condition      *)
(* nodes (ParentNode, StringNode<Equal>, NotNode), link traversal          *)
(* (LinkMap) and descriptor ordering.  Rows are 0-based as in the source;  *)
(* TLA+ sequences are 1-based, so row r of a leaf is leaf[r + 1].          *)
(***************************************************************************)
EXTENDS Integers, Sequences, FiniteSets, TLC

VARIABLES
    table,       \* sequence of clusters of the queried table
    m_cluster,   \* index into table of the cluster the nodes are bound to
    m_children,  \* the query's conjunction: sequence of condition nodes
    or_values,   \* needles of the equality conditions the builder fused, in order
    call,        \* the most recent operation and its return value
    prev,        \* the call before that, where successive calls are compared
    lm,          \* link map: the link chain, the stored links and the visitor
    tv,          \* result view and the descriptor ordering applied to it
    heap,        \* node objects by address, and the queries owning them
    cmp,         \* the two Mixed values compared last, and the outcome
    obj,         \* an object's integer field, its search index entry and the last add_int
    bld,         \* the predicate or ordering handed to the query builder, and the outcome
    ff,          \* the frame of a running ParentNode::find_first
    lst,         \* link lists, the backlinks of their targets, and the last list operation
    agg          \* the range, limit and callback trace of the last aggregate_local

vars == <<table, m_cluster, m_children, or_values, call, prev, lm, tv, heap, cmp, obj, bld, ff, lst, agg>>

\* ------------------------------------------------------------------ bounds
NumRows == 4        \* rows of the cluster scanned by NotNode
NestRows == 3       \* rows of the cluster scanned by a NotNode over a NotNode
CloneRows == 2      \* rows of the cluster scanned by a query and its clone
ConjRows == 3       \* rows of the cluster scanned by a conjunction
StrRows == 3        \* objects of the table scanned by StringNode<Equal>
MaxNeedles == 3     \* needles of a fused StringNode<Equal>
NumObj == 2         \* objects of each table a link chain passes through
MaxList == 2        \* entries of a link list or of a backlink list
MaxHops == 2        \* hops of a link chain
NumPeople == 3      \* objects of the table behind a result view
MaxDesc == 2        \* descriptors of a descriptor ordering
MaxLimit == 3       \* the largest limit of a Limit descriptor
MaxCond == 2        \* condition nodes in a conjunction

\* --------------------------------------------------------------- constants
\* realm::not_found / realm::npos: the largest row index
not_found == 2147483647

npos == not_found

\* the null ObjKey
null_key == -1

\* ------------------------------------------------------------------ values
\* realm::StringData: a null flag and the bytes
StringData(s) == [is_null |-> FALSE, str |-> s]

NullStringData == [is_null |-> TRUE, str |-> ""]

\* util::Optional<std::string>, the type of StringNodeBase::m_value
Some(s) == [engaged |-> TRUE, str |-> s]

None == [engaged |-> FALSE, str |-> ""]

\* StringData(const util::Optional<std::string>&) as spelled out in
\* do_consume_condition: m_value ? StringData(*m_value) : StringData()
ToStringData(opt) == IF opt.engaged THEN StringData(opt.str) ELSE NullStringData

Min(a, b) == IF a < b THEN a ELSE b

\* the elements of a sequence
Range(f) == {f[i] : i \in DOMAIN f}

\* smallest element of a non-empty set of integers
SetMin(S) == CHOOSE x \in S : \A y \in S : x <= y

\* ----------------------------------------------------------------- cluster
\* Cluster: offset, keys relative to the offset (ascending), one leaf per column
Cluster(offset, keys, leaf) == [offset |-> offset, keys |-> keys, leaf |-> leaf]

cluster_size(cl) == Len(cl.keys)

\* Cluster::get_real_key(row)
get_real_key(cl, row) == cl.offset + cl.keys[row + 1]

\* Cluster::lower_bound_key(key): first row whose relative key is >= key
lower_bound_key(cl, key) ==
    LET S == {r \in 0..(cluster_size(cl) - 1) : cl.keys[r + 1] >= key}
    IN  IF S = {} THEN cluster_size(cl) ELSE SetMin(S)

\* Table: its clusters in key order and the primary key column ("none" if absent)
Table(clusters, pk) == [clusters |-> clusters, primary_key_col |-> pk]

\* the cluster the nodes are bound to (ParentNode::m_cluster)
CurrentCluster == table.clusters[m_cluster]

\* Leaf::find_first(value, start, end): first row in [start, end) holding value
leaf_find_first(leaf, value, start, end) ==
    LET e == IF end = npos THEN Len(leaf) ELSE end
        S == {r \in start..(e - 1) : leaf[r + 1] = value}
    IN  IF S = {} THEN not_found ELSE SetMin(S)

\* ------------------------------------------------------------------- nodes
\* a null std::unique_ptr<IntegerColumn>
NullColumn == <<>>

\* StringNode<Equal> on column col with needle v, as constructed
StringNodeEqual(col, v) ==
    [kind |-> "StringNodeEqual", m_condition_column_key |-> col, m_value |-> v,
     m_has_search_index |-> FALSE, m_is_string_enum |-> FALSE, m_dT |-> 10,
     m_needles |-> {},
     m_index_matches |-> NullColumn, m_results_start |-> 0, m_results_end |-> 0,
     m_results_ndx |-> 0, m_actual_key |-> null_key, m_last_start_key |-> null_key]

\* NotNode over the inner query cond, in the state init() leaves it in
NotNodeInit(cond) ==
    [kind |-> "NotNode", m_condition |-> cond,
     m_known_range_start |-> 0, m_known_range_end |-> 0,
     m_first_in_known_range |-> not_found]

\* result of a member function: return value and the receiver afterwards
Ret(r, n) == [ret |-> r, node |-> n]

\* NotNode::update_known
update_known(n, start, end, first) ==
    [n EXCEPT !.m_known_range_start = start,
              !.m_known_range_end = end,
              !.m_first_in_known_range = first]

\* ascending sequence of the elements of a finite set of integers
RECURSIVE SetToSortedSeq(_)
SetToSortedSeq(S) ==
    IF S = {} THEN <<>> ELSE <<SetMin(S)>> \o SetToSortedSeq(S \ {SetMin(S)})

\* keys of the objects of tbl whose column col holds value
KeysWithValue(tbl, col, value) ==
    {get_real_key(tbl.clusters[c], r) :
        <<c, r>> \in {<<c, r>> \in (DOMAIN tbl.clusters) \X (0..(StrRows - 1)) :
                         /\ r < cluster_size(tbl.clusters[c])
                         /\ tbl.clusters[c].leaf[col][r + 1] = value}}

\* StringIndex::find_all_no_copy(value, result): the keys holding value, ascending
find_all_no_copy(tbl, col, value) ==
    LET keys == SetToSortedSeq(KeysWithValue(tbl, col, value))
    IN  IF Len(keys) = 0 THEN [fr |-> "FindRes_not_found"]
        ELSE IF Len(keys) = 1 THEN [fr |-> "FindRes_single", payload |-> keys[1]]
        ELSE [fr |-> "FindRes_column", payload |-> keys, start_ndx |-> 0, end_ndx |-> Len(keys)]

\* Table::find_first(col, value) on the primary key column: the key or the null key
Table_find_first(tbl, col, value) ==
    LET keys == KeysWithValue(tbl, col, value)
    IN  IF keys = {} THEN null_key ELSE SetMin(keys)

\* StringNode<Equal>::get_key
get_key(n, ndx) ==
    IF n.m_index_matches # NullColumn THEN n.m_index_matches[ndx + 1]
    ELSE IF n.m_results_end = 1 THEN n.m_actual_key
    ELSE null_key

\* ASCII case folding of the values the model uses
case_map(str) == IF str = "A" THEN "a" ELSE str

\* StringIndex::find_all(result, value, case_insensitive = true): the keys of
\* the objects whose value equals value up to case, ascending
find_all_ins(tbl, col, value) ==
    SetToSortedSeq(UNION {{get_real_key(tbl.clusters[c], r - 1) :
                              r \in {q \in 1..cluster_size(tbl.clusters[c]) :
                                        LET t == tbl.clusters[c].leaf[col][q]
                                        IN  /\ t.is_null = value.is_null
                                            /\ case_map(t.str) = case_map(value.str)}} :
                          c \in DOMAIN tbl.clusters})

\* StringNode<EqualIns>::_search_index_init
search_index_init_ins(tbl, n) ==
    LET res == find_all_ins(tbl, n.m_condition_column_key, ToStringData(n.m_value))
    IN  [n EXCEPT !.m_index_matches = res,
                  !.m_results_start = 0,
                  !.m_results_ndx = 0,
                  !.m_results_end = Len(res),
                  !.m_actual_key = IF Len(res) # 0 THEN res[1] ELSE @]

\* a _search_index_init that leaves the cursor m_results_ndx where it is
search_index_init_keeps_cursor(tbl, n) ==
    LET n0 == [n EXCEPT !.m_last_start_key = null_key, !.m_results_start = 0]
        n1 == IF tbl.primary_key_col = n.m_condition_column_key
              THEN LET k == Table_find_first(tbl, n.m_condition_column_key, ToStringData(n.m_value))
                   IN  [n0 EXCEPT !.m_actual_key = k,
                                  !.m_results_end = IF k # null_key THEN 1 ELSE 0]
              ELSE LET res == find_all_no_copy(tbl, n.m_condition_column_key, ToStringData(n.m_value))
                   IN  IF res.fr = "FindRes_single"
                       THEN [n0 EXCEPT !.m_index_matches = NullColumn,
                                       !.m_actual_key = res.payload,
                                       !.m_results_end = 1]
                       ELSE IF res.fr = "FindRes_column"
                       THEN [n0 EXCEPT !.m_index_matches = res.payload,
                                       !.m_results_start = res.start_ndx,
                                       !.m_results_end = res.end_ndx,
                                       !.m_actual_key = res.payload[res.start_ndx + 1]]
                       ELSE [n0 EXCEPT !.m_index_matches = NullColumn,
                                       !.m_results_end = 0]
    IN  n1

\* StringNode<Equal>::_search_index_init
search_index_init(tbl, n) ==
    LET n0 == [n EXCEPT !.m_last_start_key = null_key, !.m_results_start = 0]
        n1 == IF tbl.primary_key_col = n.m_condition_column_key
              THEN LET k == Table_find_first(tbl, n.m_condition_column_key, ToStringData(n.m_value))
                   IN  [n0 EXCEPT !.m_actual_key = k,
                                  !.m_results_end = IF k # null_key THEN 1 ELSE 0]
              ELSE LET res == find_all_no_copy(tbl, n.m_condition_column_key, ToStringData(n.m_value))
                   IN  IF res.fr = "FindRes_single"
                       THEN [n0 EXCEPT !.m_index_matches = NullColumn,
                                       !.m_actual_key = res.payload,
                                       !.m_results_end = 1]
                       ELSE IF res.fr = "FindRes_column"
                       THEN [n0 EXCEPT !.m_index_matches = res.payload,
                                       !.m_results_start = res.start_ndx,
                                       !.m_results_end = res.end_ndx,
                                       !.m_actual_key = res.payload[res.start_ndx + 1]]
                       ELSE [n0 EXCEPT !.m_index_matches = NullColumn,
                                       !.m_results_end = 0]
    IN  [n1 EXCEPT !.m_results_ndx = n1.m_results_start]

\* an init() that looks the search index up again
init_restores_index(tbl, n) ==
    search_index_init(tbl, [n EXCEPT !.m_has_search_index = TRUE, !.m_dT = 0])

\* StringNodeEqualBase::init
StringNodeEqualBase_init(tbl, n) ==
    LET n1 == [n EXCEPT !.m_dT = IF n.m_is_string_enum THEN 1
                                 ELSE IF n.m_has_search_index THEN 0 ELSE 10]
    IN  IF n1.m_has_search_index
        THEN IF n1.kind = "StringNodeEqualIns" THEN search_index_init_ins(tbl, n1)
                                               ELSE search_index_init(tbl, n1)
        ELSE n1

\* do_consume_condition without the step that turns the node's own value into
\* the first needle
do_consume_condition_drops_own(n, other) ==
    LET str == IF other.m_value.engaged THEN StringData(other.m_value.str) ELSE NullStringData
    IN  [n EXCEPT !.m_has_search_index = FALSE, !.m_needles = n.m_needles \cup {str}]

\* StringNode<Equal>::do_consume_condition
do_consume_condition(n, other) ==
    LET own == IF n.m_needles = {} THEN {ToStringData(n.m_value)} ELSE n.m_needles
        str == IF other.m_value.engaged THEN StringData(other.m_value.str) ELSE NullStringData
    IN  [n EXCEPT !.m_has_search_index = FALSE, !.m_needles = own \cup {str}]

\* find_first_haystack<20>(leaf, needles, start, end): first row of [start, end)
\* whose value is one of the needles
find_first_haystack(leaf, needles, start, end) ==
    LET S == {r \in start..(end - 1) : leaf[r + 1] \in needles}
    IN  IF S = {} THEN not_found ELSE SetMin(S)

\* StringNode<Equal>::_find_first_local
StringNodeEqual_find_first_local(cl, n, start, end) ==
    LET leaf == cl.leaf[n.m_condition_column_key]
    IN  IF n.m_needles = {}
        THEN leaf_find_first(leaf, ToStringData(n.m_value), start, end)
        ELSE find_first_haystack(leaf, n.m_needles, start,
                                 IF end = npos THEN Len(leaf) ELSE end)

\* the test with the comparison turned around
not_advancing_flipped(first_key, last_start_key) == first_key > last_start_key

\* the test "we are not advancing through the clusters" of
\* StringNodeEqualBase::find_first_local
not_advancing(first_key, last_start_key) == first_key < last_start_key

RECURSIVE advance_key(_, _)
\* StringNodeEqualBase::find_first_local, the loop advancing to the next key
\* to search for; exhausted when the results ran out
advance_key(n, first_key) ==
    IF first_key > n.m_actual_key
    THEN LET ndx == n.m_results_ndx + 1
         IN  IF ndx = n.m_results_end
             THEN [exhausted |-> TRUE, node |-> [n EXCEPT !.m_results_ndx = ndx]]
             ELSE advance_key([n EXCEPT !.m_results_ndx = ndx,
                                        !.m_actual_key = get_key(n, ndx)], first_key)
    ELSE [exhausted |-> FALSE, node |-> n]

\* StringNodeEqualBase::find_first_local
StringNodeEqualBase_find_first_local(cl, n, start, end) ==
    IF n.m_has_search_index
    THEN IF start < end
         THEN LET first_key == get_real_key(cl, start)
                  n1 == IF not_advancing(first_key, n.m_last_start_key)
                        THEN [n EXCEPT !.m_results_ndx = n.m_results_start,
                                       !.m_actual_key =
                                           IF n.m_results_start # n.m_results_end
                                           THEN get_key(n, n.m_results_start) ELSE null_key]
                        ELSE n
                  n2 == [n1 EXCEPT !.m_last_start_key = first_key]
              IN  IF n2.m_results_ndx < n2.m_results_end
                  THEN LET a == advance_key(n2, first_key)
                           last_key == get_real_key(cl, end - 1)
                       IN  IF a.exhausted THEN Ret(not_found, a.node)
                           ELSE IF a.node.m_actual_key > last_key THEN Ret(not_found, a.node)
                           ELSE Ret(lower_bound_key(cl, a.node.m_actual_key - cl.offset), a.node)
                  ELSE Ret(not_found, n2)
         ELSE Ret(not_found, n)
    ELSE Ret(StringNodeEqual_find_first_local(cl, n, start, end), n)

RECURSIVE find_first_local(_, _, _, _)
RECURSIVE find_first_iter(_, _, _, _, _, _)
RECURSIVE find_first_loop(_, _, _, _)

\* ParentNode::find_first, the while loop from the state
\* (start, current_cond, nb_cond_to_test); returns ret and the children
find_first_iter(cl, children, start, end, current_cond, nb_cond_to_test) ==
    IF start < end
    THEN LET sz  == Len(children)
             r   == find_first_local(cl, children[current_cond + 1], start, end)
             m   == r.ret
             ch  == [children EXCEPT ![current_cond + 1] = r.node]
             nb  == (IF m # start THEN sz ELSE nb_cond_to_test) - 1
             st  == IF m # start THEN m ELSE start
             cc  == IF current_cond + 1 = sz THEN 0 ELSE current_cond + 1
         IN  IF nb = 0
             THEN [ret |-> m, children |-> ch]
             ELSE find_first_iter(cl, ch, st, end, cc, nb)
    ELSE [ret |-> not_found, children |-> children]

\* ParentNode::find_first
find_first(cl, children, start, end) ==
    find_first_iter(cl, children, start, end, 0, Len(children))

\* NotNode::evaluate_at
evaluate_at(cl, n, rowndx) ==
    LET r == find_first(cl, n.m_condition, rowndx, rowndx + 1)
    IN  Ret(r.ret = not_found, [n EXCEPT !.m_condition = r.children])

\* NotNode::find_first_loop
find_first_loop(cl, n, start, end) ==
    IF start < end
    THEN LET e == evaluate_at(cl, n, start)
         IN  IF e.ret THEN Ret(start, e.node)
                      ELSE find_first_loop(cl, e.node, start + 1, end)
    ELSE Ret(not_found, n)

\* NotNode::find_first_covers_known
find_first_covers_known(cl, n, start, end) ==
    LET l == find_first_loop(cl, n, start, n.m_known_range_start)
    IN  IF l.ret # not_found
        THEN Ret(l.ret, update_known(l.node, start, n.m_known_range_end, l.ret))
        ELSE IF n.m_first_in_known_range # not_found
             THEN Ret(n.m_first_in_known_range,
                      update_known(l.node, start, n.m_known_range_end, n.m_first_in_known_range))
             ELSE LET u == find_first_loop(cl, l.node, n.m_known_range_end, end)
                  IN  Ret(u.ret, update_known(u.node, start, end, u.ret))

\* the comparison of the cached first match with end in
\* NotNode::find_first_covered_by_known
first_is_beyond(first, end) == first > end

\* NotNode::find_first_covered_by_known
find_first_covered_by_known(cl, n, start, end) ==
    IF n.m_first_in_known_range # not_found /\ first_is_beyond(n.m_first_in_known_range, end)
    THEN Ret(not_found, n)
    ELSE IF n.m_first_in_known_range # not_found /\ n.m_first_in_known_range >= start
         THEN Ret(n.m_first_in_known_range, n)
         ELSE find_first_loop(cl, n, start, end)

\* an overlap_lower that caches the value it returns
find_first_overlap_lower_caches_returned(cl, n, start, end) ==
    LET l      == find_first_loop(cl, n, start, n.m_known_range_start)
        result == IF l.ret = not_found THEN n.m_first_in_known_range ELSE l.ret
        ret    == IF result < end THEN result ELSE not_found
    IN  Ret(ret, update_known(l.node, start, n.m_known_range_end, ret))

\* NotNode::find_first_overlap_lower
find_first_overlap_lower(cl, n, start, end) ==
    LET l      == find_first_loop(cl, n, start, n.m_known_range_start)
        result == IF l.ret = not_found THEN n.m_first_in_known_range ELSE l.ret
    IN  Ret(IF result < end THEN result ELSE not_found,
            update_known(l.node, start, n.m_known_range_end, result))

\* NotNode::find_first_overlap_upper
find_first_overlap_upper(cl, n, start, end) ==
    IF n.m_first_in_known_range # not_found
    THEN IF n.m_first_in_known_range >= start
         THEN Ret(n.m_first_in_known_range,
                  update_known(n, n.m_known_range_start, end, n.m_first_in_known_range))
         ELSE LET l == find_first_loop(cl, n, start, end)
              IN  Ret(l.ret, update_known(l.node, n.m_known_range_start, end,
                                          n.m_first_in_known_range))
    ELSE LET l == find_first_loop(cl, n, n.m_known_range_end, end)
         IN  Ret(l.ret, update_known(l.node, n.m_known_range_start, end, l.ret))

\* a no-overlap case that also replaces the known range by one as wide
find_first_no_overlap_or_equal(cl, n, start, end) ==
    LET l == find_first_loop(cl, n, start, end)
    IN  IF end - start >= n.m_known_range_end - n.m_known_range_start
        THEN Ret(l.ret, update_known(l.node, start, end, l.ret))
        ELSE l

\* NotNode::find_first_no_overlap
find_first_no_overlap(cl, n, start, end) ==
    LET l == find_first_loop(cl, n, start, end)
    IN  IF end - start > n.m_known_range_end - n.m_known_range_start
        THEN Ret(l.ret, update_known(l.node, start, end, l.ret))
        ELSE l

\* NotNode::find_first_local
NotNode_find_first_local(cl, n, start, end) ==
    IF start <= n.m_known_range_start /\ end >= n.m_known_range_end
    THEN find_first_covers_known(cl, n, start, end)
    ELSE IF start >= n.m_known_range_start /\ end <= n.m_known_range_end
    THEN find_first_covered_by_known(cl, n, start, end)
    ELSE IF start < n.m_known_range_start /\ end >= n.m_known_range_start
    THEN find_first_overlap_lower(cl, n, start, end)
    ELSE IF start <= n.m_known_range_end /\ end > n.m_known_range_end
    THEN find_first_overlap_upper(cl, n, start, end)
    ELSE find_first_no_overlap(cl, n, start, end)

\* virtual ParentNode::find_first_local, dispatched on the node's class
find_first_local(cl, n, start, end) ==
    IF n.kind = "NotNode"
    THEN NotNode_find_first_local(cl, n, start, end)
    ELSE StringNodeEqualBase_find_first_local(cl, n, start, end)

\* ------------------------------------------------------ reference semantics
RECURSIVE Matches(_, _, _)
\* row satisfies the condition node n (by the meaning of the node, not its caches)
Matches(cl, n, row) ==
    IF n.kind = "NotNode"
    THEN ~ (\A i \in 1..Len(n.m_condition) : Matches(cl, n.m_condition[i], row))
    ELSE IF n.m_needles = {}
         THEN cl.leaf[n.m_condition_column_key][row + 1] = ToStringData(n.m_value)
         ELSE cl.leaf[n.m_condition_column_key][row + 1] \in n.m_needles

\* smallest row of [start, end) satisfying every node of children, else not_found
FirstMatch(cl, children, start, end) ==
    LET S == {r \in start..(end - 1) : \A i \in 1..Len(children) : Matches(cl, children[i], r)}
    IN  IF S = {} THEN not_found ELSE SetMin(S)

\* ----------------------------------------------------- components at rest
NoCall == [op |-> "none", start |-> 0, end |-> 0, ret |-> 0]

\* no link map in use
IdleLinks == lm = [op |-> "none"]

\* no result view in use
IdleView == tv = [op |-> "none"]

\* no node objects allocated
IdleHeap == heap = [op |-> "none"]

\* no values compared
IdleMixed == cmp = [op |-> "none"]

\* no object in use
IdleObj == obj = [op |-> "none"]

\* nothing handed to the query builder
IdleBuilder == bld = [op |-> "none"]

\* no find_first running
IdleLoop == ff = [pc |-> "none"]

\* no list in use
IdleLists == lst = [op |-> "none"]

\* no aggregate running
IdleAggregate == agg = [op |-> "none"]

\* no query in use
IdleQuery ==
    /\ table = Table(<<>>, "none")
    /\ m_cluster = 1
    /\ m_children = <<>>
    /\ or_values = <<>>
    /\ call = NoCall
    /\ prev = NoCall

\* ------------------------------------------------------------ NotNode spec

\* leaves of n rows over the given values
Leaves(n, vals) == [1..n -> vals]

TwoVals == {StringData("a"), StringData("b")}

\* a NotNode over the inner query q on a cluster of n rows, right after init()
InitNotOver(n, q) ==
    /\ \E lf \in Leaves(n, TwoVals) :
          table = Table(<<Cluster(0, [i \in 1..n |-> i - 1], [c1 |-> lf])>>, "none")
    /\ m_cluster = 1
    /\ m_children = <<NotNodeInit(q)>>
    /\ call = NoCall
    /\ prev = NoCall
    /\ or_values = <<>>
    /\ IdleLinks
    /\ IdleHeap
    /\ IdleView
    /\ IdleMixed
    /\ IdleObj
    /\ IdleBuilder
    /\ IdleLoop
    /\ IdleLists
    /\ IdleAggregate

\* NOT(x == "a")
InitNot == InitNotOver(NumRows, <<StringNodeEqual("c1", Some("a"))>>)

\* NOT(NOT(x == "a"))
InitNotNot == InitNotOver(NestRows, <<NotNodeInit(<<StringNodeEqual("c1", Some("a"))>>)>>)

\* a caller invokes find_first_local(start, end) on the NotNode
FindFirstLocalCall(start, end) ==
    /\ LET r == find_first_local(CurrentCluster, m_children[1], start, end)
       IN  /\ m_children' = <<r.node>>
           /\ call' = [op |-> "find_first_local", start |-> start, end |-> end, ret |-> r.ret]
    /\ prev' = call
    /\ UNCHANGED <<table, m_cluster, or_values, lm, tv, heap, cmp, obj, bld, ff, lst, agg>>

NextNot ==
    \E start \in 0..(cluster_size(CurrentCluster) - 1) :
    \E end \in (start + 1)..cluster_size(CurrentCluster) :
        FindFirstLocalCall(start, end)

SpecNot == InitNot /\ [][NextNot]_vars

SpecNotNot == InitNotNot /\ [][NextNot]_vars

\* -------------------------------------------------------- conjunction spec
\* the condition nodes a conjunction is built from
CondNodes ==
    {StringNodeEqual("c1", Some("a")), StringNodeEqual("c2", Some("a")),
     NotNodeInit(<<StringNodeEqual("c1", Some("a"))>>),
     NotNodeInit(<<StringNodeEqual("c2", Some("a"))>>)}

\* sequences over S of length 1..n
SeqsUpTo(S, n) == UNION {[1..k -> S] : k \in 1..n}

InitConj ==
    /\ \E l1 \in Leaves(ConjRows, TwoVals) : \E l2 \in Leaves(ConjRows, TwoVals) :
          table = Table(<<Cluster(0, [i \in 1..ConjRows |-> i - 1], [c1 |-> l1, c2 |-> l2])>>, "none")
    /\ m_cluster = 1
    /\ m_children \in SeqsUpTo(CondNodes, MaxCond)
    /\ call = NoCall
    /\ prev = NoCall
    /\ or_values = <<>>
    /\ IdleLinks
    /\ IdleHeap
    /\ IdleView
    /\ IdleMixed
    /\ IdleObj
    /\ IdleBuilder
    /\ IdleLoop
    /\ IdleLists
    /\ IdleAggregate

\* a caller invokes ParentNode::find_first(start, end) on the conjunction
FindFirstCall(start, end) ==
    /\ LET r == find_first(CurrentCluster, m_children, start, end)
       IN  /\ m_children' = r.children
           /\ call' = [op |-> "find_first", start |-> start, end |-> end, ret |-> r.ret]
    /\ UNCHANGED <<table, m_cluster, or_values, prev, lm, tv, heap, cmp, obj, bld, ff, lst, agg>>

NextConj ==
    \E start \in 0..(ConjRows - 1) : \E end \in (start + 1)..ConjRows :
        FindFirstCall(start, end)

SpecConj == InitConj /\ [][NextConj]_vars

\* C1: for a conjunction of N >= 1 condition nodes and any row range [a,b),
\* ParentNode::find_first(a,b) returns the smallest row of [a,b) at which
\* every child condition matches, and not_found if there is none.
C1_FindFirstIsFirstMatch ==
    call.op = "find_first"
        => call.ret = FirstMatch(CurrentCluster, m_children, call.start, call.end)

\* ------------------------------------------------- StringNode<Equal> spec
ThreeVals == TwoVals \cup {NullStringData}

\* the clusters of a table holding the objects keys[i] with values vals[i],
\* split after the first split objects; the second cluster's keys are
\* relative to its first key
SplitClusters(keys, vals, split) ==
    LET n  == Len(keys)
        c1 == Cluster(0, SubSeq(keys, 1, split), [c1 |-> SubSeq(vals, 1, split)])
        c2 == Cluster(keys[split + 1],
                      [i \in 1..(n - split) |-> keys[split + i] - keys[split + 1]],
                      [c1 |-> SubSeq(vals, split + 1, n)])
    IN  IF split = n THEN <<c1>> ELSE <<c1, c2>>

\* no two objects hold the same value
UniqueValues(vals) == \A i, j \in DOMAIN vals : i # j => vals[i] # vals[j]

\* the state of a table and a StringNode<Equal> on its column c1 after
\* table_changed and init(): objects with keys K and values vals, split into
\* clusters, primary key pk, needle v, search index idx
StrState(K, vals, split, pk, v, idx) ==
    /\ pk = "c1" => (idx /\ UniqueValues(vals))
    /\ table = Table(SplitClusters(SetToSortedSeq(K), vals, split), pk)
    /\ m_children = <<StringNodeEqualBase_init(table,
                         [StringNodeEqual("c1", v) EXCEPT !.m_has_search_index = idx])>>
    /\ or_values = <<v>>
    /\ m_cluster = 1
    /\ call = NoCall
    /\ prev = NoCall
    /\ IdleLinks
    /\ IdleHeap
    /\ IdleView
    /\ IdleMixed
    /\ IdleObj
    /\ IdleBuilder
    /\ IdleLoop
    /\ IdleLists
    /\ IdleAggregate

\* an indexed column, one or two clusters, keys with a gap
InitIdx ==
    \E K \in {(0..StrRows) \ {g} : g \in 0..1} :
    \E vals \in Leaves(StrRows, ThreeVals) :
    \E split \in 1..StrRows :
    \E pk \in {"none", "c1"} :
    \E v \in {Some("a"), None} :
        StrState(K, vals, split, pk, v, TRUE)

\* values of the fused column: a string, the empty string and null
FuseVals == {StringData("a"), StringData(""), NullStringData}

\* one cluster, the column with or without a search index
InitFuse ==
    \E vals \in Leaves(StrRows, FuseVals) :
    \E v \in {Some("a"), None} :
    \E idx \in BOOLEAN :
        StrState(0..(StrRows - 1), vals, StrRows, "none", v, idx)

\* the query is run again: init() on the node
InitCall ==
    /\ m_children' = <<StringNodeEqualBase_init(table, m_children[1])>>
    /\ call' = [op |-> "init", start |-> 0, end |-> 0, ret |-> 0]
    /\ UNCHANGED <<table, m_cluster, or_values, prev, lm, tv, heap, cmp, obj, bld, ff, lst, agg>>

\* the executor moves to another cluster: set_cluster(c)
SetCluster(c) ==
    /\ c # m_cluster
    /\ m_cluster' = c
    /\ call' = [op |-> "set_cluster", start |-> 0, end |-> 0, ret |-> 0]
    /\ UNCHANGED <<table, m_children, or_values, prev, lm, tv, heap, cmp, obj, bld, ff, lst, agg>>

\* the builder fuses another equality condition on the same column into the node
DoConsumeCondition(v) ==
    /\ Len(or_values) < MaxNeedles
    /\ m_children' = <<do_consume_condition(m_children[1], StringNodeEqual("c1", v))>>
    /\ or_values' = Append(or_values, v)
    /\ call' = [op |-> "do_consume_condition", start |-> 0, end |-> 0, ret |-> 0]
    /\ UNCHANGED <<table, m_cluster, prev, lm, tv, heap, cmp, obj, bld, ff, lst, agg>>

\* find_first_local on the node over a range of the current cluster; past the
\* end (npos) only where the node scans the leaf.  The call record keeps the
\* start key the node remembered from the call before (last_start_key).
FindFirstLocalStr ==
    \E start \in 0..(cluster_size(CurrentCluster) - 1) :
    \E end \in ((start + 1)..cluster_size(CurrentCluster)) \cup {npos} :
        /\ end = npos => ~ m_children[1].m_has_search_index
        /\ LET r == find_first_local(CurrentCluster, m_children[1], start, end)
           IN  /\ m_children' = <<r.node>>
               /\ call' = [op |-> "find_first_local", start |-> start, end |-> end,
                           ret |-> r.ret, last_start_key |-> m_children[1].m_last_start_key]
        /\ UNCHANGED <<table, m_cluster, or_values, prev, lm, tv, heap, cmp, obj, bld, ff, lst, agg>>

NextIdx ==
    \/ InitCall
    \/ \E c \in DOMAIN table.clusters : SetCluster(c)
    \/ FindFirstLocalStr

SpecIdx == InitIdx /\ [][NextIdx]_vars

NextFuse ==
    \/ InitCall
    \/ \E v \in {Some(""), None} : DoConsumeCondition(v)
    \/ FindFirstLocalStr

SpecFuse == InitFuse /\ [][NextFuse]_vars

\* the index-match keys lying between the keys of rows start and end - 1
MatchKeysInRange(cl, n, start, end) ==
    {k \in KeysWithValue(table, n.m_condition_column_key, ToStringData(n.m_value)) :
        get_real_key(cl, start) <= k /\ k <= get_real_key(cl, end - 1)}

\* the row of cluster cl holding key k
RowOfKey(cl, k) == CHOOSE r \in 0..(cluster_size(cl) - 1) : get_real_key(cl, r) = k

\* C4: an equality node on an indexed column, over any sequence of
\* find_first_local calls with arbitrary (also decreasing) start, returns
\* the cluster row of the smallest index-match key k with
\* key(start) <= k <= key(end-1), or not_found if there is none.
C4_IndexedEqualIsFirstMatchKey ==
    (call.op = "find_first_local" /\ m_children[1].m_has_search_index)
        => LET ks == MatchKeysInRange(CurrentCluster, m_children[1], call.start, call.end)
           IN  call.ret = IF ks = {} THEN not_found ELSE RowOfKey(CurrentCluster, SetMin(ks))

\* C4 witness: the index holds several matches, and a call whose start key is
\* below the start key of the call before it finds a match below that key
C4_Witness ==
    /\ m_children[1].m_has_search_index
    /\ m_children[1].m_results_end - m_children[1].m_results_start >= 2
    /\ call.op = "find_first_local"
    /\ get_real_key(CurrentCluster, call.start) < call.last_start_key
    /\ call.ret # not_found
    /\ get_real_key(CurrentCluster, call.ret) < call.last_start_key

\* value v of a row equals the needle o of an equality condition
EqualsNeedle(v, o) ==
    IF o.engaged THEN ~ v.is_null /\ v.str = o.str ELSE v.is_null

\* C5: a StringNode<Equal> into which k other equality conditions on the
\* column were fused returns from find_first_local(start, end) the smallest
\* row of [start, end) whose value equals any of the k+1 needles, a null
\* needle matching null values: the rows of the original OR, in its order.
C5_FusedEqualsOr ==
    (call.op = "find_first_local" /\ Len(or_values) >= 2)
        => LET leaf == CurrentCluster.leaf["c1"]
               e    == IF call.end = npos THEN Len(leaf) ELSE call.end
               S    == {r \in call.start..(e - 1) :
                           \E i \in 1..Len(or_values) : EqualsNeedle(leaf[r + 1], or_values[i])}
           IN  call.ret = IF S = {} THEN not_found ELSE SetMin(S)

\* C5 witness: three needles, one of them null and none of them empty, and
\* the scan skipped a row holding the empty string to return a row holding null
C5_Witness ==
    /\ call.op = "find_first_local" /\ Len(or_values) = 3
    /\ \E i \in 1..3 : ~ or_values[i].engaged
    /\ \A i \in 1..3 : or_values[i] # Some("")
    /\ call.ret # not_found /\ call.ret > call.start
    /\ CurrentCluster.leaf["c1"][call.start + 1] = StringData("")
    /\ CurrentCluster.leaf["c1"][call.ret + 1].is_null

\* ------------------------------------------------------------ description
\* util::serializer::print_value(StringData): NULL for null, else the quoted string
print_value(sd) == IF sd.is_null THEN "NULL" ELSE "'" \o sd.str \o "'"

\* StringNodeEqualBase::describe: column, operator, value
describe_condition(col, sd) == <<col, "==", print_value(sd)>>

RECURSIVE describe_needles(_, _, _)
\* StringNode<Equal>::describe, the loop over m_needles in iteration order
\* order, from needle i on: the conditions joined by "or"
describe_needles(col, order, i) ==
    IF i > Len(order) THEN <<>>
    ELSE (IF i = 1 THEN <<>> ELSE <<"or">>)
            \o describe_condition(col, order[i]) \o describe_needles(col, order, i + 1)

\* StringNode<Equal>::describe; order is the order in which the unordered
\* set m_needles is iterated
describe(n, order) ==
    IF n.m_needles = {}
    THEN describe_condition(n.m_condition_column_key, ToStringData(n.m_value))
    ELSE <<"(">> \o describe_needles(n.m_condition_column_key, order, 1) \o <<")">>

\* the iteration orders of the unordered set S
IterationOrders(S) ==
    {f \in [1..Cardinality(S) -> S] : \A i, j \in 1..Cardinality(S) : i # j => f[i] # f[j]}

\* the values equality conditions are written with
DescVals == {Some("0"), Some("1"), Some("2"), None}

\* the value a value token of a description stands for
parse_value(token) == CHOOSE v \in DescVals : print_value(ToStringData(v)) = token

\* the values of the equality conditions of a description, in written order
parse(desc) ==
    LET toks == SelectSeq(desc, LAMBDA t : t \notin {"(", ")", "or", "==", "c1"})
    IN  [i \in DOMAIN toks |-> parse_value(toks[i])]

RECURSIVE consume_from(_, _, _)
\* the builder fuses the conditions on values[i..] into the node n
consume_from(n, values, i) ==
    IF i > Len(values) THEN n
    ELSE consume_from(do_consume_condition(n, StringNodeEqual("c1", values[i])), values, i + 1)

\* the query the builder makes of an or-chain of equality conditions on c1
apply_predicate(tbl, values) ==
    StringNodeEqualBase_init(tbl, consume_from(StringNodeEqual("c1", values[1]), values, 2))

\* a query on an unindexed column, one equality condition so far
InitDescribe ==
    \E v \in DescVals :
        StrState(0..(StrRows - 1), [i \in 1..StrRows |-> StringData("0")], StrRows, "none", v, FALSE)

\* a builder that fuses at any time
building_always(op) == TRUE

\* the query is still being built: nothing but fusion has been done to it
building(op) == op \in {"none", "do_consume_condition"}

\* the builder fuses one more condition, on a value not written before, while
\* the query is being built
Build(v) ==
    /\ building(call.op)
    /\ \A i \in DOMAIN or_values : or_values[i] # v
    /\ DoConsumeCondition(v)

\* q.get_description(); prev keeps the description the query was rebuilt from
Describe ==
    /\ call.op # "describe"
    /\ \E order \in IterationOrders(m_children[1].m_needles) :
          call' = [op |-> "describe", desc |-> describe(m_children[1], order),
                   start |-> 0, end |-> 0, ret |-> 0]
    /\ UNCHANGED <<table, m_cluster, m_children, or_values, prev, lm, tv, heap, cmp, obj, bld, ff, lst, agg>>

\* verify_query: the description is parsed and a second query built from it
Reparse ==
    /\ call.op = "describe" /\ prev.op = "none"
    /\ m_children' = <<apply_predicate(table, parse(call.desc))>>
    /\ prev' = call
    /\ call' = [op |-> "parse", start |-> 0, end |-> 0, ret |-> 0]
    /\ UNCHANGED <<table, m_cluster, or_values, lm, tv, heap, cmp, obj, bld, ff, lst, agg>>

NextDescribe ==
    \/ \E v \in DescVals : Build(v)
    \/ Describe
    \/ Reparse

SpecDescribe == InitDescribe /\ [][NextDescribe]_vars

\* a query is built, then initialised and evaluated
NextBuild ==
    \/ \E v \in DescVals : Build(v)
    \/ InitCall
    \/ FindFirstLocalStr

SpecBuild == InitDescribe /\ [][NextBuild]_vars

C16_DescribeRoundTrip ==
    (call.op = "describe" /\ prev.op = "describe") => call.desc = prev.desc

\* C17: the description of the query compiled from
\* "a == '0' or a == '1' or a == '2'" contains the IN form.
C17_DescriptionHasIN ==
    (call.op = "describe" /\ or_values = <<Some("0"), Some("1"), Some("2")>> /\ prev.op = "none")
        => \E i \in DOMAIN call.desc : call.desc[i] = "IN"

\* ------------------------------------------------------------------ clone
\* A node object is [node, m_child]: the node's own fields and the address
\* of the next node of its query (0: none).  heap.nodes[a] is the object at
\* address a, heap.queries the root addresses of the queries, heap.alone[q]
\* the nodes of query q as they are when only q's own calls are made.

RECURSIVE Chain(_, _)
\* the addresses of the nodes of the query rooted at a, following m_child
Chain(nodes, a) == IF a = 0 THEN <<>> ELSE <<a>> \o Chain(nodes, nodes[a].m_child)

RECURSIVE clone(_, _)
\* a copy constructor that copies the pointer to the child
copy_child_shared(nodes, child) == [nodes |-> nodes, a |-> child]

\* ParentNode::ParentNode(const ParentNode&), m_child: the child is cloned
copy_child(nodes, child) ==
    IF child = 0 THEN [nodes |-> nodes, a |-> 0] ELSE clone(nodes, child)

\* a clone that hands out the node itself
clone_same_object(nodes, a) == [nodes |-> nodes, a |-> a]

\* ParentNode::clone of the node at address a: a new object with the node's
\* fields and a copy of its child
clone(nodes, a) ==
    LET c == copy_child(nodes, nodes[a].m_child)
    IN  [nodes |-> Append(c.nodes, [node |-> nodes[a].node, m_child |-> c.a]),
         a     |-> Len(c.nodes) + 1]

\* the node values of the query rooted at a
NodesOf(nodes, a) == [k \in DOMAIN Chain(nodes, a) |-> nodes[Chain(nodes, a)[k]].node]

\* one query on an indexed column: x == "a" and NOT(x == "a") as its child
InitClone ==
    /\ \E lf \in Leaves(CloneRows, TwoVals) :
          table = Table(<<Cluster(0, [i \in 1..CloneRows |-> i - 1], [c1 |-> lf])>>, "none")
    /\ m_cluster = 1
    /\ m_children = <<>>
    /\ or_values = <<>>
    /\ call = NoCall
    /\ prev = NoCall
    /\ IdleLinks
    /\ IdleView
    /\ IdleMixed
    /\ IdleObj
    /\ IdleBuilder
    /\ IdleLoop
    /\ IdleLists
    /\ IdleAggregate
    /\ LET root  == StringNodeEqualBase_init(table,
                        [StringNodeEqual("c1", Some("a")) EXCEPT !.m_has_search_index = TRUE])
           child == NotNodeInit(<<StringNodeEqual("c1", Some("a"))>>)
           nodes == <<[node |-> root, m_child |-> 2], [node |-> child, m_child |-> 0]>>
       IN  heap = [nodes |-> nodes, queries |-> <<1>>, alone |-> <<NodesOf(nodes, 1)>>]

\* the query is cloned
Clone ==
    /\ Len(heap.queries) = 1
    /\ LET c == clone(heap.nodes, heap.queries[1])
       IN  heap' = [nodes |-> c.nodes, queries |-> Append(heap.queries, c.a),
                    alone |-> Append(heap.alone, NodesOf(heap.nodes, heap.queries[1]))]
    /\ call' = [op |-> "clone", start |-> 0, end |-> 0, ret |-> 0]
    /\ UNCHANGED <<table, m_cluster, m_children, or_values, prev, lm, tv, cmp, obj, bld, ff, lst, agg>>

\* find_first_local(start, end) on node k of query q
CallNode(q, k, start, end) ==
    LET a  == Chain(heap.nodes, heap.queries[q])[k]
        r  == find_first_local(CurrentCluster, heap.nodes[a].node, start, end)
        ra == find_first_local(CurrentCluster, heap.alone[q][k], start, end)
    IN  /\ heap' = [heap EXCEPT !.nodes[a].node = r.node, !.alone[q][k] = ra.node]
        /\ call' = [op |-> "find_first_local", start |-> start, end |-> end, ret |-> r.ret,
                    alone_ret |-> ra.ret, query |-> q, a |-> a]
        /\ UNCHANGED <<table, m_cluster, m_children, or_values, prev, lm, tv, cmp, obj, bld, ff, lst, agg>>

NextClone ==
    \/ Clone
    \/ \E q \in DOMAIN heap.queries :
       \E k \in DOMAIN Chain(heap.nodes, heap.queries[q]) :
       \E start \in 0..(CloneRows - 1) : \E end \in (start + 1)..CloneRows :
          CallNode(q, k, start, end)

SpecClone == InitClone /\ [][NextClone]_vars

\* the addresses of the nodes of query q
AddressesOf(q) == Range(Chain(heap.nodes, heap.queries[q]))

\* C18: a query and its clone share no node object, and under any
\* interleaving of find_first_local calls on the two each call returns what
\* it returns when only its own query is called, leaving the query's nodes
\* as they are then.
C18_CloneIsIndependent ==
    /\ \A q1, q2 \in DOMAIN heap.queries : q1 # q2 => AddressesOf(q1) \cap AddressesOf(q2) = {}
    /\ call.op = "find_first_local" => call.ret = call.alone_ret
    /\ \A q \in DOMAIN heap.queries : NodesOf(heap.nodes, heap.queries[q]) = heap.alone[q]

\* C18 witness: a call on the clone found a row after calls on the original
\* had left the original's NotNode with another known range than the clone's
C18_Witness ==
    /\ Len(heap.queries) = 2
    /\ call.op = "find_first_local" /\ call.query = 2 /\ call.ret # not_found
    /\ heap.nodes[call.a].node.kind = "NotNode"
    /\ NodesOf(heap.nodes, heap.queries[1])[2].m_known_range_end
          # NodesOf(heap.nodes, heap.queries[2])[2].m_known_range_end

ObjKeys == 0..(NumObj - 1)

LinkTypes == {"col_type_Link", "col_type_LinkList", "col_type_BackLink"}

\* LinkMapFunction::consume(k) of the visitor in use: false (stop) on the keys
\* in stop_keys, true (continue) on the others
consume(stop_keys, k) == k \notin stop_keys

RECURSIVE map_links(_, _, _, _)
RECURSIVE map_each(_, _, _, _, _)

\* the for loops of LinkMap::map_links over the entries ks of a link list or
\* of a backlink list from entry t on; trace is the sequence of keys passed
\* to consume so far
map_each(l, column, ks, t, trace) ==
    IF t > Len(ks) THEN trace
    ELSE IF column + 1 = Len(l.m_link_types)
         THEN IF consume(l.stop_keys, ks[t])
              THEN map_each(l, column, ks, t + 1, Append(trace, ks[t]))
              ELSE Append(trace, ks[t])
         ELSE map_each(l, column, ks, t + 1, map_links(l, column + 1, ks[t], trace))

\* LinkMap::map_links(size_t column, ObjKey key, LinkMapFunction& lm);
\* l.links[column + 1][key] holds what the object stores in the hop's column:
\* <<>> or <<k>> for a link, the entries for a list or a backlink column
map_links(l, column, key, trace) ==
    LET type == l.m_link_types[column + 1]
        ks   == l.links[column + 1][key]
    IN  IF type = "col_type_Link"
        THEN IF ks # <<>>
             THEN IF column + 1 = Len(l.m_link_types)
                  THEN Append(trace, ks[1])
                  ELSE map_links(l, column + 1, ks[1], trace)
             ELSE trace
        ELSE map_each(l, column, ks, 1, trace)

\* LinkMap::map_links(size_t column, size_t row, LinkMapFunction& lm): the
\* hop is read from the leaf at row, the further hops by key
map_links_row(l, column, row, trace) ==
    LET type == l.m_link_types[column + 1]
        ks   == l.links[column + 1][row]
    IN  IF type = "col_type_Link"
        THEN IF ks # <<>>
             THEN IF column + 1 = Len(l.m_link_types)
                  THEN Append(trace, ks[1])
                  ELSE map_links(l, column + 1, ks[1], trace)
             ELSE trace
        ELSE map_each(l, column, ks, 1, trace)

\* sequences over S of at most n entries
SeqsUpToOrEmpty(S, n) == UNION {[1..k -> S] : k \in 0..n}

InitLinks ==
    /\ IdleQuery
    /\ IdleView
    /\ IdleHeap
    /\ IdleMixed
    /\ IdleObj
    /\ IdleBuilder
    /\ IdleLoop
    /\ IdleLists
    /\ IdleAggregate
    /\ \E types \in UNION {[1..k -> LinkTypes] : k \in 1..MaxHops} :
       \E links \in [1..Len(types) -> [ObjKeys -> SeqsUpToOrEmpty(ObjKeys, MaxList)]] :
       \E stop \in SUBSET ObjKeys :
          /\ \A h \in 1..Len(types) : \A k \in ObjKeys :
                types[h] = "col_type_Link" => Len(links[h][k]) <= 1
          /\ lm = [op |-> "none", m_link_types |-> types, links |-> links,
                   stop_keys |-> stop, trace |-> <<>>]

\* map_links(0, key, visitor): the traversal from the object key
MapLinksKey(key) ==
    /\ lm.op = "none"
    /\ lm' = [lm EXCEPT !.op = "map_links_key", !.trace = map_links(lm, 0, key, <<>>)]
    /\ UNCHANGED <<table, m_cluster, m_children, or_values, call, prev, tv, heap, cmp, obj, bld, ff, lst, agg>>

\* map_links(0, row, visitor): the traversal from a row of the bound leaf
MapLinksRow(row) ==
    /\ lm.op = "none"
    /\ lm' = [lm EXCEPT !.op = "map_links_row", !.trace = map_links_row(lm, 0, row, <<>>)]
    /\ UNCHANGED <<table, m_cluster, m_children, or_values, call, prev, tv, heap, cmp, obj, bld, ff, lst, agg>>

NextLinks ==
    \/ \E key \in ObjKeys : MapLinksKey(key)
    \/ \E row \in ObjKeys : MapLinksRow(row)

SpecLinks == InitLinks /\ [][NextLinks]_vars

\* C9: in LinkMap::map_links, once the visitor's consume has returned false,
\* consume is not called again in that traversal, whatever the length of the
\* chain and the kinds of its hops: only the last key passed to consume can
\* be one the visitor stops on.
C9_NoConsumeAfterStop ==
    lm.op \in {"map_links_key", "map_links_row"}
        => \A i \in 1..(Len(lm.trace) - 1) : consume(lm.stop_keys, lm.trace[i])

\* ----------------------------------------------------- descriptor ordering
\* the names stored in the table, in code-point order
Names == <<"Adam", "Ben", "Frank">>

Ages == {28, 30}

\* the people a table is filled from: the three of the tests and a namesake
People ==
    {[name |-> "Adam", age |-> 28], [name |-> "Frank", age |-> 30],
     [name |-> "Ben", age |-> 28], [name |-> "Ben", age |-> 30]}

\* position of string s in the code-point order of the stored names
StringRank(s) == CHOOSE i \in DOMAIN Names : Names[i] = s

\* the value object key of tbl holds in column col, as a sort key
SortKey(tbl, col, key) ==
    LET v == tbl.clusters[1].leaf[col][key + 1]
    IN  IF col = "name" THEN StringRank(v.str) ELSE v

Sort(col, ascending) == [type |-> "Sort", col |-> col, ascending |-> ascending]

Distinct(col) == [type |-> "Distinct", col |-> col]

Limit(n) == [type |-> "Limit", limit |-> n]

\* an order that also puts a before a row of equal value
SortsBefore_or_equal(tbl, d, a, b) ==
    IF d.ascending THEN SortKey(tbl, d.col, a) <= SortKey(tbl, d.col, b)
                   ELSE SortKey(tbl, d.col, a) >= SortKey(tbl, d.col, b)

\* a precedes b under the sort descriptor d
SortsBefore(tbl, d, a, b) ==
    IF d.ascending THEN SortKey(tbl, d.col, a) < SortKey(tbl, d.col, b)
                   ELSE SortKey(tbl, d.col, a) > SortKey(tbl, d.col, b)

RECURSIVE insert_sorted(_, _, _, _)
\* rows (sorted under d) with key inserted after every row it does not precede
insert_sorted(tbl, d, rows, key) ==
    IF rows = <<>> THEN <<key>>
    ELSE IF SortsBefore(tbl, d, key, Head(rows))
         THEN <<key>> \o rows
         ELSE <<Head(rows)>> \o insert_sorted(tbl, d, Tail(rows), key)

RECURSIVE sort_rows(_, _, _)
\* Sort: stable sort of the view by the descriptor's column and direction
sort_rows(tbl, d, rows) ==
    IF rows = <<>> THEN <<>>
    ELSE insert_sorted(tbl, d, sort_rows(tbl, d, SubSeq(rows, 1, Len(rows) - 1)),
                       rows[Len(rows)])

\* a distinct that keeps the last row of the view for each value of the column
distinct_rows_keep_last(tbl, d, rows) ==
    SelectSeq([i \in DOMAIN rows |-> [ndx |-> i, key |-> rows[i]]],
              LAMBDA e : \A j \in (e.ndx + 1)..Len(rows) :
                            SortKey(tbl, d.col, rows[j]) # SortKey(tbl, d.col, e.key))

\* Distinct: keep the first row of the view for each value of the column
distinct_rows(tbl, d, rows) ==
    SelectSeq([i \in DOMAIN rows |-> [ndx |-> i, key |-> rows[i]]],
              LAMBDA e : \A j \in 1..(e.ndx - 1) :
                            SortKey(tbl, d.col, rows[j]) # SortKey(tbl, d.col, e.key))

\* the keys of a sequence of <<ndx, key>> entries
KeysOf(entries) == [i \in DOMAIN entries |-> entries[i].key]

\* a limit that keeps the last n rows
limit_rows_from_end(rows, n) == SubSeq(rows, Len(rows) - n + 1, Len(rows))

\* Limit: the first n rows of a view of more than n rows
limit_rows(rows, n) == SubSeq(rows, 1, n)

\* a count that also takes in the rows a Distinct removed
count_removed_any(d, removed) == removed

\* the rows a descriptor removed that count as excluded by limit
count_removed(d, removed) == IF d.type = "Limit" THEN removed ELSE 0

\* a count that forgets what earlier limits excluded
add_excluded_latest(excluded, removed) == IF removed > 0 THEN removed ELSE excluded

\* the number of rows excluded by limit after one more descriptor
add_excluded(excluded, removed) == excluded + removed

\* the rows of the view v = [rows, excluded] after descriptor d
execute_rows(tbl, d, v) ==
    IF d.type = "Sort" THEN sort_rows(tbl, d, v.rows)
    ELSE IF d.type = "Distinct" THEN KeysOf(distinct_rows(tbl, d, v.rows))
    ELSE IF Len(v.rows) > d.limit THEN limit_rows(v.rows, d.limit)
    ELSE v.rows

\* one descriptor applied to the view v = [rows, excluded]
execute(tbl, d, v) ==
    LET rows == execute_rows(tbl, d, v)
    IN  [rows |-> rows,
         excluded |-> add_excluded(v.excluded, count_removed(d, Len(v.rows) - Len(rows)))]

\* an ordering that takes its descriptors last to first
next_descriptor_reversed(ordering, i) == ordering[Len(ordering) + 1 - i]

\* the descriptor applied in step i of an ordering
next_descriptor(ordering, i) == ordering[i]

RECURSIVE apply_from(_, _, _, _)
\* the descriptors of ordering from step i on, applied to v one after the other
apply_from(tbl, ordering, i, v) ==
    IF i > Len(ordering) THEN v
    ELSE apply_from(tbl, ordering, i + 1, execute(tbl, next_descriptor(ordering, i), v))

\* TableView::apply_descriptor_ordering
apply_descriptor_ordering(tbl, ordering, v) == apply_from(tbl, ordering, 1, v)

\* the descriptors an ordering is written from
Descriptors ==
    {Sort("name", TRUE), Sort("age", TRUE), Distinct("age")}
        \cup {Limit(n) : n \in 0..MaxLimit}

\* the predicates of the queries behind a view
Predicates == {"TRUEPREDICATE", "age < 30"}

\* the object with key key of tbl satisfies the predicate
Satisfies(tbl, predicate, key) ==
    predicate = "TRUEPREDICATE" \/ tbl.clusters[1].leaf["age"][key + 1] < 30

\* Query::find_all: the keys of the objects satisfying the predicate, in key order
find_all(tbl, predicate) ==
    SelectSeq([i \in 1..cluster_size(tbl.clusters[1]) |-> i - 1],
              LAMBDA key : Satisfies(tbl, predicate, key))

\* the view find_all() materialises for a predicate over a table of people
InitView ==
    /\ \E people \in [1..NumPeople -> People] :
          table = Table(<<Cluster(0, [i \in 1..NumPeople |-> i - 1],
                                  [name |-> [i \in 1..NumPeople |-> StringData(people[i].name)],
                                   age  |-> [i \in 1..NumPeople |-> people[i].age]])>>, "none")
    /\ m_cluster = 1
    /\ m_children = <<>>
    /\ or_values = <<>>
    /\ call = NoCall
    /\ prev = NoCall
    /\ IdleLinks
    /\ IdleHeap
    /\ IdleMixed
    /\ IdleObj
    /\ IdleBuilder
    /\ IdleLoop
    /\ IdleLists
    /\ IdleAggregate
    /\ \E predicate \in Predicates :
          tv = [op |-> "find_all", rows |-> find_all(table, predicate), excluded |-> 0,
                found |-> find_all(table, predicate), ordering |-> <<>>,
                before |-> [rows |-> <<>>, excluded |-> 0]]

\* the view after ordering was applied to it; before keeps the view it was applied to
Applied(op, ordering) ==
    LET v == apply_descriptor_ordering(table, ordering, [rows |-> tv.rows, excluded |-> tv.excluded])
    IN  [tv EXCEPT !.op = op, !.rows = v.rows, !.excluded = v.excluded,
                   !.ordering = ordering,
                   !.before = [rows |-> tv.rows, excluded |-> tv.excluded]]

\* tv.apply_descriptor_ordering(ordering) on the materialised view
ApplyDescriptorOrdering(ordering) ==
    /\ tv.op = "find_all"
    /\ tv' = Applied("apply_descriptor_ordering", ordering)
    /\ UNCHANGED <<table, m_cluster, m_children, or_values, call, prev, lm, heap, cmp, obj, bld, ff, lst, agg>>

\* tv.apply_descriptor_ordering with the same ordering again, on the outcome
ApplyAgain ==
    /\ tv.op = "apply_descriptor_ordering"
    /\ tv' = Applied("apply_again", tv.ordering)
    /\ UNCHANGED <<table, m_cluster, m_children, or_values, call, prev, lm, heap, cmp, obj, bld, ff, lst, agg>>

\* the orderings of one Sort, one Distinct and one Limit, in any order
ThreeKinds ==
    {o \in [1..3 -> Descriptors] : {o[i].type : i \in 1..3} = {"Sort", "Distinct", "Limit"}}

\* the orderings applied to a view
Orderings == SeqsUpTo(Descriptors, MaxDesc) \cup ThreeKinds

NextView ==
    \/ \E ordering \in Orderings : ApplyDescriptorOrdering(ordering)
    \/ ApplyAgain

SpecView == InitView /\ [][NextView]_vars

\* rows is in ascending order of name
AscendingByName(rows) ==
    \A i, j \in DOMAIN rows : i < j => SortKey(table, "name", rows[i]) <= SortKey(table, "name", rows[j])

\* C10: descriptors are applied strictly in the order written.  LIMIT(2)
\* SORT(x) keeps the first two rows of the view in its prior order and then
\* sorts those two; SORT(x) LIMIT(2) sorts the whole view and then keeps the
\* two smallest by x.
C10_WrittenOrder ==
    /\ (tv.op = "apply_descriptor_ordering" /\ tv.ordering = <<Limit(2), Sort("name", TRUE)>>)
          => /\ Range(tv.rows) = {tv.found[i] : i \in 1..Min(2, Len(tv.found))}
             /\ Len(tv.rows) = Min(2, Len(tv.found))
             /\ AscendingByName(tv.rows)
    /\ (tv.op = "apply_descriptor_ordering" /\ tv.ordering = <<Sort("name", TRUE), Limit(2)>>)
          => /\ Len(tv.rows) = Min(2, Len(tv.found))
             /\ Range(tv.rows) \subseteq Range(tv.found)
             /\ AscendingByName(tv.rows)
             /\ \A out \in Range(tv.found) \ Range(tv.rows) : \A in \in Range(tv.rows) :
                   SortKey(table, "name", in) <= SortKey(table, "name", out)

\* C10 witness: the table of the Parser_Limit test (Adam, Frank, Ben) under
\* LIMIT(2) SORT(name): the view is Adam, Frank, and the dropped row (Ben)
\* has a smaller name than a row that was kept
C10_Witness ==
    /\ tv.op = "apply_descriptor_ordering"
    /\ tv.ordering = <<Limit(2), Sort("name", TRUE)>>
    /\ table.clusters[1].leaf["name"] = <<StringData("Adam"), StringData("Frank"), StringData("Ben")>>
    /\ tv.rows = <<0, 1>>
    /\ \E out \in Range(tv.found) \ Range(tv.rows) : \E in \in Range(tv.rows) :
          SortKey(table, "name", out) < SortKey(table, "name", in)

Max(a, b) == IF a > b THEN a ELSE b

\* an ordering has been applied to the view
OrderingApplied == tv.op \in {"apply_descriptor_ordering", "apply_again"}

\* the view after the first i descriptors of the ordering applied last
ViewAfter(i) == apply_descriptor_ordering(table, SubSeq(tv.ordering, 1, i), tv.before)

\* the steps of the ordering applied last that are of the given type
StepsOf(type) == {i \in 1..Len(tv.ordering) : tv.ordering[i].type = type}

\* C11 (as written): Limit(n) on a view of previous_size rows truncates the
\* view to its first n rows and records previous_size - n rows as excluded
\* by limit.
C11_LimitRecordsDifference ==
    OrderingApplied
        => \A i \in StepsOf("Limit") :
              LET b == ViewAfter(i - 1)
                  a == ViewAfter(i)
                  n == tv.ordering[i].limit
              IN  /\ a.rows = SubSeq(b.rows, 1, Min(n, Len(b.rows)))
                  /\ a.excluded - b.excluded = Len(b.rows) - n

\* C11 (amended): Limit(n) on a view of previous_size rows truncates the view
\* to its first n rows, all of them if it holds fewer, and adds
\* max(previous_size - n, 0) to the rows excluded by limit.
C11_LimitTruncates ==
    OrderingApplied
        => \A i \in StepsOf("Limit") :
              LET b == ViewAfter(i - 1)
                  a == ViewAfter(i)
                  n == tv.ordering[i].limit
              IN  /\ a.rows = SubSeq(b.rows, 1, Min(n, Len(b.rows)))
                  /\ a.excluded - b.excluded = Max(Len(b.rows) - n, 0)

\* C11 witness: LIMIT(1) on the three rows of TRUEPREDICATE keeps the first
\* row and records two excluded rows
C11_Witness ==
    /\ tv.op = "apply_descriptor_ordering" /\ tv.ordering = <<Limit(1)>>
    /\ Len(tv.found) = 3
    /\ tv.rows = <<tv.found[1]>>
    /\ tv.excluded = 2

RECURSIVE SumOver(_, _)
\* the sum of f over the finite set S of its arguments
SumOver(f, S) ==
    IF S = {} THEN 0
    ELSE LET x == CHOOSE y \in S : TRUE IN f[x] + SumOver(f, S \ {x})

\* the number of rows step i of the ordering applied last removed
RemovedBy == [i \in 1..Len(tv.ordering) |-> Len(ViewAfter(i - 1).rows) - Len(ViewAfter(i).rows)]

\* C12: get_num_results_excluded_by_limit is the number of rows the Limit
\* descriptors of the ordering removed, summed over all of them; rows removed
\* by Distinct or rejected by the predicate are not counted.
C12_ExcludedCountsLimitOnly ==
    tv.op = "apply_descriptor_ordering"
        => /\ tv.excluded = SumOver(RemovedBy, StepsOf("Limit"))
           /\ Len(tv.found) - Len(tv.rows)
                 = tv.excluded + SumOver(RemovedBy, StepsOf("Distinct"))

\* C12 witness: LIMIT(2) DISTINCT(age) on three rows of which the first two
\* have the same age: one row excluded by limit, one more removed by distinct
C12_Witness ==
    /\ tv.op = "apply_descriptor_ordering"
    /\ tv.ordering = <<Limit(2), Distinct("age")>>
    /\ Len(tv.found) = 3 /\ Len(tv.rows) = 1
    /\ tv.excluded = 1

\* C13: adjacent descriptors LIMIT(n) LIMIT(m) leave the view (rows, order
\* and excluded-by-limit count) that the single descriptor LIMIT(min(n, m))
\* leaves.
C13_AdjacentLimits ==
    OrderingApplied
        => \A i \in StepsOf("Limit") :
              (i + 1) \in StepsOf("Limit")
                  => ViewAfter(i + 1)
                       = execute(table, Limit(Min(tv.ordering[i].limit, tv.ordering[i + 1].limit)),
                                 ViewAfter(i - 1))

\* C13 witness: LIMIT(2) LIMIT(1) on three rows: one row left, two excluded
C13_Witness ==
    /\ tv.op = "apply_descriptor_ordering"
    /\ tv.ordering = <<Limit(2), Limit(1)>>
    /\ Len(tv.found) = 3
    /\ tv.rows = <<tv.found[1]>> /\ tv.excluded = 2

\* position of key in the sequence rows of different keys
PosIn(rows, key) == CHOOSE i \in DOMAIN rows : rows[i] = key

\* C14: Distinct keeps, for each value of its column, exactly the first row
\* of the view in the order the view has when Distinct is applied, and the
\* kept rows stay in that order.
C14_DistinctKeepsFirst ==
    OrderingApplied
        => \A i \in StepsOf("Distinct") :
              LET b   == ViewAfter(i - 1).rows
                  a   == ViewAfter(i).rows
                  col == tv.ordering[i].col
              IN  /\ Range(a) = {b[j] : j \in {k \in DOMAIN b :
                                      \A h \in 1..(k - 1) :
                                          SortKey(table, col, b[h]) # SortKey(table, col, b[k])}}
                  /\ Len(a) = Cardinality(Range(a))
                  /\ \A x, y \in DOMAIN a : x < y => PosIn(b, a[x]) < PosIn(b, a[y])

\* C14 witness: SORT(name) DISTINCT(age) on Adam-28, Frank-30, Ben-28: the
\* sorted view is Adam, Ben, Frank and Distinct drops Ben from its middle
C14_Witness ==
    /\ tv.op = "apply_descriptor_ordering"
    /\ tv.ordering = <<Sort("name", TRUE), Distinct("age")>>
    /\ table.clusters[1].leaf["name"] = <<StringData("Adam"), StringData("Frank"), StringData("Ben")>>
    /\ table.clusters[1].leaf["age"] = <<28, 30, 28>>
    /\ tv.found = <<0, 1, 2>>
    /\ tv.rows = <<0, 1>>

\* the ordering is of the form SORT... DISTINCT... LIMIT...
SortDistinctLimit(ordering) ==
    LET rank == [t \in {"Sort", "Distinct", "Limit"} |->
                    IF t = "Sort" THEN 1 ELSE IF t = "Distinct" THEN 2 ELSE 3]
    IN  /\ ordering # <<>>
        /\ \A i, j \in DOMAIN ordering : i < j => rank[ordering[i].type] <= rank[ordering[j].type]

\* C15: an ordering D of the form SORT... DISTINCT... LIMIT... applied to the
\* outcome of applying D leaves the view as it is.
C15_ApplyTwice ==
    (tv.op = "apply_again" /\ SortDistinctLimit(tv.ordering))
        => (tv.rows = tv.before.rows /\ tv.excluded = tv.before.excluded)

\* C15 witness: SORT(name) DISTINCT(age) LIMIT(1) applied a second time to
\* the one row it left of three
C15_Witness ==
    /\ tv.op = "apply_again"
    /\ tv.ordering = <<Sort("name", TRUE), Distinct("age"), Limit(1)>>
    /\ Len(tv.found) = 3 /\ Len(tv.rows) = 1
    /\ tv.rows # <<tv.found[1]>>

\* the NotNode under test wraps a plain equality condition
OverLeaf == m_children[1].kind = "NotNode" /\ m_children[1].m_condition[1].kind = "StringNodeEqual"

\* the NotNode under test wraps another NotNode
OverNot == m_children[1].kind = "NotNode" /\ m_children[1].m_condition[1].kind = "NotNode"

\* C2: NotNode::find_first_local(start, end), after any earlier calls on the
\* node, returns not_found or a row r with start <= r < end.
C2_ReturnInRange ==
    (OverLeaf /\ call.op = "find_first_local")
        => (call.ret = not_found \/ (call.start <= call.ret /\ call.ret < call.end))

\* C3: every find_first_local call on a NotNode over an unchanged inner query
\* returns what an uncached scan returns: the smallest row of [start, end) at
\* which the inner query has no match, or not_found.
C3_SameAsUncachedScan ==
    (OverLeaf /\ call.op = "find_first_local")
        => call.ret = FirstMatch(CurrentCluster, m_children, call.start, call.end)

\* C6: with end held fixed and start strictly increasing, successive
\* find_first_local calls on a node return a non-decreasing sequence
\* (not_found being the largest row index).
C6_MonotoneReturns ==
    (OverLeaf /\ prev.op = "find_first_local" /\ call.op = "find_first_local"
        /\ call.end = prev.end /\ call.start > prev.start)
        => call.ret >= prev.ret

\* C7: two find_first_local calls in a row with identical (start, end) on the
\* same node return the same value.
C7_Idempotent ==
    (OverLeaf /\ prev.op = "find_first_local" /\ call.op = "find_first_local"
        /\ call.end = prev.end /\ call.start = prev.start)
        => call.ret = prev.ret

\* rows of [start, end) that the conjunction children matches
MatchSet(cl, children, start, end) ==
    {r \in start..(end - 1) : \A i \in 1..Len(children) : Matches(cl, children[i], r)}

\* C8: NOT(NOT(q)) matches exactly the rows q matches, over any row range and
\* any order of calls: a call on the outer NotNode skips no row of
\* [start, end) that q matches, and a row it reports in the range is one q
\* matches.
C8_DoubleNegation ==
    (OverNot /\ call.op = "find_first_local")
        => LET q == m_children[1].m_condition[1].m_condition
           IN  /\ MatchSet(CurrentCluster, q, call.start, Min(call.ret, call.end)) = {}
               /\ call.ret < call.end => call.ret \in MatchSet(CurrentCluster, q, call.start, call.end)

\* ---------------------------------------------------------- Mixed::compare
\* width of the exponent and of the float mantissa of the binary
\* floating-point formats compared; a double has one mantissa bit more
ExpBits == 2

ManBits == 1

\* Int, Link, Timestamp and byte values run over -MaxVal..MaxVal or 0..MaxVal
MaxVal == 1

\* longest string and binary value
MaxBytes == 2

RECURSIVE Pow2(_)
Pow2(n) == IF n = 0 THEN 1 ELSE 2 * Pow2(n - 1)

\* sizeof(Float) in bits, fmt being the format of float or of double
FloatBits(fmt) == 1 + fmt.exp + fmt.man

FloatFormat == [exp |-> ExpBits, man |-> ManBits]

DoubleFormat == [exp |-> ExpBits, man |-> ManBits + 1]

\* the fields of the bit pattern x
sign_bit(fmt, x) == x \div Pow2(fmt.exp + fmt.man)

exponent(fmt, x) == (x \div Pow2(fmt.man)) % Pow2(fmt.exp)

mantissa(fmt, x) == x % Pow2(fmt.man)

\* std::isnan: all exponent bits set and a mantissa other than zero
isnan(fmt, x) == exponent(fmt, x) = Pow2(fmt.exp) - 1 /\ mantissa(fmt, x) # 0

\* the number a pattern other than a NaN stands for, scaled to an integer:
\* subnormals below normals, the infinities beyond every finite number, and
\* both zeros 0
float_value(fmt, x) ==
    LET e   == exponent(fmt, x)
        m   == mantissa(fmt, x)
        mag == IF e = 0 THEN m ELSE (Pow2(fmt.man) + m) * Pow2(e - 1)
    IN  IF sign_bit(fmt, x) = 1 THEN 0 - mag ELSE mag

\* the bits read as a two's-complement integer of the float's size
raw_bits_signed(fmt, x) ==
    IF x >= Pow2(FloatBits(fmt) - 1) THEN x - Pow2(FloatBits(fmt)) ELSE x

\* memcpy of the float into IntTypeForSize<sizeof(Float)>::type, an unsigned
\* integer of the float's size
raw_bits(fmt, x) == x

\* a == b ? 0 : a < b ? -1 : 1
three_way(a, b) == IF a = b THEN 0 ELSE IF a < b THEN -1 ELSE 1

\* a comparison by the IEEE operators alone, which are all false on a NaN
compare_float_ieee(fmt, a_raw, b_raw) ==
    IF isnan(fmt, a_raw) \/ isnan(fmt, b_raw) THEN 1
    ELSE three_way(float_value(fmt, a_raw), float_value(fmt, b_raw))

\* _impl::compare_float
compare_float(fmt, a_raw, b_raw) ==
    LET a_nan == isnan(fmt, a_raw)
        b_nan == isnan(fmt, b_raw)
    IN  IF ~ a_nan /\ ~ b_nan
        THEN three_way(float_value(fmt, a_raw), float_value(fmt, b_raw))
        ELSE IF a_nan /\ b_nan
        THEN three_way(raw_bits(fmt, a_raw), raw_bits(fmt, b_raw))
        ELSE IF a_nan THEN -1 ELSE 1

RECURSIVE memcmp(_, _, _)
\* memcmp over the first n bytes, as its sign
memcmp(a, b, n) ==
    IF n = 0 THEN 0
    ELSE IF a[1] # b[1] THEN (IF a[1] < b[1] THEN -1 ELSE 1)
    ELSE memcmp(Tail(a), Tail(b), n - 1)

\* _impl::compare_binary
compare_binary(a, b) ==
    LET ret == memcmp(a, b, Min(Len(a), Len(b)))
    IN  IF ret = 0
        THEN IF Len(a) > Len(b) THEN 1 ELSE IF Len(a) < Len(b) THEN -1 ELSE 0
        ELSE ret

\* utf8_compare(a, b): a sorts before b
utf8_compare(a, b) == compare_binary(a, b) < 0

\* _impl::compare_string
compare_string(a, b) == IF a = b THEN 0 ELSE IF utf8_compare(a, b) THEN -1 ELSE 1

\* operator> of the types compared with > and <: integers, object keys and
\* bool (false < true) by value, Timestamp by seconds, then nanoseconds
greater(type, a, b) ==
    IF type = "type_Timestamp"
    THEN a.seconds > b.seconds \/ (a.seconds = b.seconds /\ a.nanoseconds > b.nanoseconds)
    ELSE IF type = "type_Bool" THEN a /\ ~ b
    ELSE a > b

\* the null Mixed (m_type == 0)
NullMixed == [m_type |-> "null", val |-> 0]

\* a Mixed holding the value val of the given type
Mixed(type, val) == [m_type |-> type, val |-> val]

\* Mixed::is_null
is_null(m) == m.m_type = "null"

\* Mixed::get_type
get_type(m) == m.m_type

\* the outcome for a null operand if nulls were ordered after all values
compare_with_null_last(a, b) ==
    IF is_null(a) THEN (IF is_null(b) THEN 0 ELSE 1) ELSE -1

\* Mixed::compare, the part taken when an operand is null: nulls are treated
\* as being less than all other values
compare_with_null(a, b) ==
    IF is_null(a) THEN (IF is_null(b) THEN 0 ELSE -1) ELSE 1

\* Mixed::compare on two values of one type
Mixed_compare(a, b) ==
    IF is_null(a) \/ is_null(b) THEN compare_with_null(a, b)
    ELSE IF get_type(a) = "type_String" THEN compare_string(a.val, b.val)
    ELSE IF get_type(a) = "type_Binary" THEN compare_binary(a.val, b.val)
    ELSE IF get_type(a) = "type_Float" THEN compare_float(FloatFormat, a.val, b.val)
    ELSE IF get_type(a) = "type_Double" THEN compare_float(DoubleFormat, a.val, b.val)
    ELSE IF greater(get_type(a), a.val, b.val) THEN 1
    ELSE IF greater(get_type(a), b.val, a.val) THEN -1
    ELSE 0

\* byte strings of up to MaxBytes bytes
Bytes == UNION {[1..k -> 1..(MaxVal + 1)] : k \in 0..MaxBytes}

\* the values of each type
ValuesOf(type) ==
    IF type = "type_Int" THEN (0 - MaxVal)..MaxVal
    ELSE IF type = "type_Bool" THEN BOOLEAN
    ELSE IF type \in {"type_String", "type_Binary"} THEN Bytes
    ELSE IF type = "type_Timestamp"
    THEN [seconds : (0 - MaxVal)..MaxVal, nanoseconds : 0..MaxVal]
    ELSE IF type = "type_Link" THEN 0..MaxVal
    ELSE IF type = "type_Float" THEN 0..(Pow2(FloatBits(FloatFormat)) - 1)
    ELSE 0..(Pow2(FloatBits(DoubleFormat)) - 1)

\* the types Mixed::compare supports
MixedTypes ==
    {"type_Int", "type_Bool", "type_String", "type_Binary", "type_Timestamp",
     "type_Link", "type_Float", "type_Double"}

\* the Mixed values of a type: null and every value of the type
MixedValues(type) == {NullMixed} \cup {Mixed(type, v) : v \in ValuesOf(type)}

\* two values of one type, either of which may be null
InitMixed ==
    /\ \E type \in MixedTypes :
       \E a \in MixedValues(type) : \E b \in MixedValues(type) :
           cmp = [op |-> "new", a |-> a, b |-> b, type |-> type, ret |-> 0]
    /\ IdleQuery
    /\ IdleLinks
    /\ IdleView
    /\ IdleHeap
    /\ IdleObj
    /\ IdleBuilder
    /\ IdleLoop
    /\ IdleLists
    /\ IdleAggregate

\* a.compare(b)
Compare ==
    /\ cmp.op = "new"
    /\ cmp' = [cmp EXCEPT !.op = "compare", !.ret = Mixed_compare(cmp.a, cmp.b)]
    /\ UNCHANGED <<table, m_cluster, m_children, or_values, call, prev, lm, tv, heap, obj, bld, ff, lst, agg>>

NextMixed == Compare

SpecMixed == InitMixed /\ [][NextMixed]_vars

\* C21: Mixed::compare(a, b) is negative whenever a is null and b is not,
\* positive whenever a is not null and b is, and 0 when both are null, for
\* every value type.
C21_NullsFirst ==
    cmp.op = "compare"
        => /\ (is_null(cmp.a) /\ ~ is_null(cmp.b)) => cmp.ret < 0
           /\ (~ is_null(cmp.a) /\ is_null(cmp.b)) => cmp.ret > 0
           /\ (is_null(cmp.a) /\ is_null(cmp.b)) => cmp.ret = 0

\* C21 witness: null compared with a double NaN, the value that is itself
\* below every other double, is negative
C21_Witness ==
    /\ cmp.op = "compare" /\ is_null(cmp.a)
    /\ get_type(cmp.b) = "type_Double" /\ isnan(DoubleFormat, cmp.b.val)
    /\ cmp.ret < 0

\* the format of the floating-point values compared last
FormatOf(type) == IF type = "type_Float" THEN FloatFormat ELSE DoubleFormat

\* C22: the comparison of floats and doubles orders every NaN below every
\* value that is not a NaN, negative infinity included, and two NaNs by
\* their bit patterns compared as unsigned integers.
C22_NaNOrder ==
    (cmp.op = "compare" /\ cmp.type \in {"type_Float", "type_Double"}
        /\ ~ is_null(cmp.a) /\ ~ is_null(cmp.b))
        => LET fmt == FormatOf(cmp.type)
               a   == cmp.a.val
               b   == cmp.b.val
           IN  /\ (isnan(fmt, a) /\ ~ isnan(fmt, b)) => cmp.ret < 0
               /\ (~ isnan(fmt, a) /\ isnan(fmt, b)) => cmp.ret > 0
               /\ (isnan(fmt, a) /\ isnan(fmt, b))
                     => cmp.ret = (IF a = b THEN 0 ELSE IF a < b THEN -1 ELSE 1)

\* C22 witness: a NaN with the sign bit set compares above a NaN without it
C22_Witness ==
    /\ cmp.op = "compare" /\ cmp.type = "type_Float"
    /\ ~ is_null(cmp.a) /\ isnan(FloatFormat, cmp.a.val) /\ sign_bit(FloatFormat, cmp.a.val) = 1
    /\ ~ is_null(cmp.b) /\ isnan(FloatFormat, cmp.b.val) /\ sign_bit(FloatFormat, cmp.b.val) = 0
    /\ cmp.ret = 1

\* ------------------------------------------------------------ Obj::add_int
\* width in bits of the stored integers, standing for the 64 of int64_t
IntBits == 3

\* 2^IntBits, the number of values of the unsigned type
Modulus == Pow2(IntBits)

\* the values of the signed type
Int64 == (0 - Pow2(IntBits - 1))..(Pow2(IntBits - 1) - 1)

\* util::Optional<int64_t>
SomeInt(v) == [engaged |-> TRUE, v |-> v]

NoInt == [engaged |-> FALSE, v |-> 0]

\* uint64_t(a)
to_unsigned(a) == a % Modulus

\* int64_t(u): the two's-complement reading of the bits of u
to_signed(u) == IF u >= Pow2(IntBits - 1) THEN u - Modulus ELSE u

\* an addition that stops at the ends of the signed range
add_saturating(a, b) ==
    Max(0 - Pow2(IntBits - 1), Min(Pow2(IntBits - 1) - 1, a + b))

\* the lambda add_wrap of Obj::add_int
add_wrap(a, b) ==
    LET ua == to_unsigned(a)
        ub == to_unsigned(b)
    IN  to_signed((ua + ub) % Modulus)

\* Obj::add_int(col_key, value) on an attached object and a valid column key:
\* the stored value, the search index and the replication log afterwards,
\* and the exception thrown
add_int(o, value) ==
    IF o.nullable /\ ~ o.value.engaged
    THEN [o EXCEPT !.raised = "LogicError::illegal_combination"]
    ELSE LET new_val == add_wrap(o.value.v, value)
         IN  [o EXCEPT !.value = SomeInt(new_val),
                       !.index = IF o.has_index THEN SomeInt(new_val) ELSE o.index,
                       !.logged = IF o.has_repl THEN SomeInt(value) ELSE o.logged,
                       !.raised = "none"]

\* an object with one integer column, nullable or not, with or without a
\* search index and a replication log; the index holds the stored value
InitObj ==
    /\ \E nullable \in BOOLEAN : \E has_index \in BOOLEAN : \E has_repl \in BOOLEAN :
       \E v \in {SomeInt(i) : i \in Int64} \cup (IF nullable THEN {NoInt} ELSE {}) :
           obj = [op |-> "new", nullable |-> nullable, has_index |-> has_index,
                  has_repl |-> has_repl, value |-> v,
                  index |-> IF has_index THEN v ELSE NoInt, logged |-> NoInt,
                  old |-> v, arg |-> 0, raised |-> "none"]
    /\ IdleQuery
    /\ IdleLinks
    /\ IdleView
    /\ IdleHeap
    /\ IdleMixed
    /\ IdleBuilder
    /\ IdleLoop
    /\ IdleLists
    /\ IdleAggregate

\* o.add_int(col, value); old and arg keep the value before and the argument
AddInt(value) ==
    /\ obj.op \in {"new", "add_int"}
    /\ obj' = [add_int(obj, value) EXCEPT !.op = "add_int", !.old = obj.value, !.arg = value]
    /\ UNCHANGED <<table, m_cluster, m_children, or_values, call, prev, lm, tv, heap, cmp, bld, ff, lst, agg>>

NextObj == \E value \in Int64 : AddInt(value)

SpecObj == InitObj /\ [][NextObj]_vars

\* C23: Obj::add_int(col, v) on an integer that is not null stores
\* (old + v) modulo 2^IntBits read as a signed integer of IntBits bits, and
\* raises nothing, the sum overflowing or not.
C23_AddIntWraps ==
    (obj.op = "add_int" /\ obj.old.engaged)
        => /\ obj.value.engaged
           /\ obj.value.v \in Int64
           /\ (obj.value.v - (obj.old.v + obj.arg)) % Modulus = 0
           /\ obj.raised = "none"

\* C23 witness: the sum of two positive values passed the largest value and
\* a negative value was stored, the search index following it
C23_Witness ==
    /\ obj.op = "add_int" /\ obj.old.engaged
    /\ obj.old.v > 0 /\ obj.arg > 0 /\ obj.old.v + obj.arg >= Pow2(IntBits - 1)
    /\ obj.value.v < 0 /\ obj.raised = "none"
    /\ obj.has_index /\ obj.index = obj.value

\* ------------------------------------------------------------ query builder
\* longest key path handed to the builder
MaxPath == 2

\* largest argument index written, and largest number of arguments provided
MaxArgs == 2

\* the tables of TEST(Parser_IncludeDescriptor): a person links to an account
Column(tbl, name, type, target) == [table |-> tbl, name |-> name, type |-> type, target |-> target]

Schema ==
    {Column("person", "name", "type_String", ""),
     Column("person", "age", "type_Int", ""),
     Column("person", "account", "type_Link", "account"),
     Column("account", "balance", "type_Double", ""),
     Column("account", "num_transactions", "type_Int", "")}

Tables == {c.table : c \in Schema}

\* a segment of a key path: a property name, or @links.<tbl>.<name>
Property(name) == [kind |-> "property", table |-> "", name |-> name]

Backlink(tbl, name) == [kind |-> "backlink", table |-> tbl, name |-> name]

\* the key path mapping: on an account, account_owner stands for
\* @links.person.account; on a person, years stands for age
KeyPathMapping(tbl, name) ==
    IF tbl = "account" /\ name = "account_owner" THEN Backlink("person", "account")
    ELSE IF tbl = "person" /\ name = "years" THEN Property("age")
    ELSE Property(name)

\* the segment that seg, written on table tbl, stands for
expand(tbl, seg) == IF seg.kind = "property" THEN KeyPathMapping(tbl, seg.name) ELSE seg

NoError == <<>>

\* the outcome of resolving one segment: the error, or the table the path
\* continues on and the kind of link followed
Resolved(tbl, link) == [error |-> NoError, table |-> tbl, link |-> link]

Failed(message) == [error |-> message, table |-> "", link |-> "none"]

\* the test that refuses a backlink looks at the segment as it was written
backlink_written(written, s) == written.kind = "backlink"

\* the test that refuses a backlink looks at the segment the mapping gave
backlink_found(written, s) == s.kind = "backlink"

\* one segment of a key path resolved on table tbl, in a predicate or in an
\* INCLUDE clause, backlinks being allowed in predicates or not
resolve_segment(tbl, seg, clause, allow_backlinks) ==
    LET s == expand(tbl, seg)
    IN  IF s.kind = "backlink"
        THEN IF ~ \E c \in Schema :
                    c.table = s.table /\ c.name = s.name /\ c.type = "type_Link" /\ c.target = tbl
             THEN Failed(<<"No property '", s.name, "' found in type '", s.table,
                           "' which links to type '", tbl, "'">>)
             ELSE IF clause = "predicate" /\ ~ allow_backlinks /\ backlink_found(seg, s)
             THEN Failed(<<"Querying over backlinks is disabled but backlinks were found in ",
                           "the inverse relationship of property '", s.name,
                           "' on type '", s.table, "'">>)
             ELSE Resolved(s.table, "backlink")
        ELSE IF ~ \E c \in Schema : c.table = tbl /\ c.name = s.name
             THEN Failed(<<"No property '", s.name, "' on object of type '", tbl, "'">>)
             ELSE LET c == CHOOSE c \in Schema : c.table = tbl /\ c.name = s.name
                  IN  IF c.type = "type_Link" THEN Resolved(c.target, "forward")
                      ELSE Resolved(tbl, "none")

RECURSIVE resolve_path(_, _, _, _, _)
\* the segments of path from the i-th on, resolved one after the other; a
\* property that is no link ends a predicate's path and has no place in an
\* INCLUDE path
resolve_path(tbl, path, i, clause, allow_backlinks) ==
    LET r == resolve_segment(tbl, path[i], clause, allow_backlinks)
    IN  IF r.error # NoError THEN r
        ELSE IF r.link = "none" /\ (i < Len(path) \/ clause = "INCLUDE")
        THEN Failed(<<"Property '", expand(tbl, path[i]).name, "' is not a link in object of type '",
                      tbl, "'">> \o (IF clause = "INCLUDE" THEN <<" in 'INCLUDE' clause">> ELSE <<>>))
        ELSE IF i = Len(path) THEN r
        ELSE resolve_path(r.table, path, i + 1, clause, allow_backlinks)

\* an INCLUDE path may end in any link
ends_in_link(r) == r.link # "none"

\* the last part of an included path must be a backlink column
ends_in_backlink(r) == r.link = "backlink"

\* query_builder::apply_ordering on INCLUDE(path): the error, NoError when the
\* ordering was built
apply_ordering(tbl, path, allow_backlinks) ==
    LET r == resolve_path(tbl, path, 1, "INCLUDE", allow_backlinks)
    IN  IF r.error # NoError THEN r.error
        ELSE IF ~ ends_in_backlink(r)
        THEN <<"Invalid INCLUDE path at [", "0", ", ", "0",
               "]: the last part of an included path must be a backlink column.">>
        ELSE NoError

\* every miss reported in the plural
missing_argument_plural(ndx, count) ==
    <<"Request for argument at index ", ToString(ndx), " but only ", ToString(count),
      " arguments are provided">>

\* the message for argument ndx when count arguments were provided
missing_argument(ndx, count) ==
    IF count = 0
    THEN <<"Request for argument at index ", ToString(ndx), " but no arguments are provided">>
    ELSE IF count = 1
    THEN <<"Request for argument at index ", ToString(ndx), " but only ", ToString(count),
           " argument is provided">>
    ELSE <<"Request for argument at index ", ToString(ndx), " but only ", ToString(count),
           " arguments are provided">>

\* the test of an argument index against the arguments provided
verify_ndx(ndx, count) == IF ndx >= count THEN missing_argument(ndx, count) ELSE NoError

\* query_builder::apply_predicate on "<path> > 0" (ndx < 0) or
\* "<path> > $ndx": the error, NoError when the query was built.  The text of
\* the error for a path that ends in a link is not modelled.
apply_comparison(tbl, path, ndx, count, allow_backlinks) ==
    LET r == resolve_path(tbl, path, 1, "predicate", allow_backlinks)
    IN  IF r.error # NoError THEN r.error
        ELSE IF r.link # "none" THEN <<"unsupported comparison">>
        ELSE IF ndx >= 0 THEN verify_ndx(ndx, count)
        ELSE NoError

\* the segments written in the paths handed to the builder
Segments ==
    {Property(n) : n \in {"age", "account", "balance", "bad_property_name",
                          "account_owner", "years"}}
        \cup {Backlink("person", "account")}

Paths == SeqsUpTo(Segments, MaxPath)

\* a parsed query string: a comparison of a key path with a number, or of
\* person.age with the argument $ndx of count arguments, or a valid
\* comparison followed by INCLUDE(path)
InitBuilder ==
    /\ \/ \E tbl \in Tables : \E path \in Paths : \E allow \in BOOLEAN :
          \E clause \in {"predicate", "INCLUDE"} :
              bld = [op |-> "parse", clause |-> clause, table |-> tbl, path |-> path,
                     ndx |-> 0 - 1, count |-> 0, allow_backlinks |-> allow,
                     error |-> NoError, built |-> FALSE]
       \/ \E ndx \in 0..MaxArgs : \E count \in 0..MaxArgs :
              bld = [op |-> "parse", clause |-> "predicate", table |-> "person",
                     path |-> <<Property("age")>>, ndx |-> ndx, count |-> count,
                     allow_backlinks |-> TRUE, error |-> NoError, built |-> FALSE]
    /\ IdleQuery
    /\ IdleLinks
    /\ IdleView
    /\ IdleHeap
    /\ IdleMixed
    /\ IdleObj
    /\ IdleLoop
    /\ IdleLists
    /\ IdleAggregate

\* the builder's outcome recorded: the query or view exists if nothing was thrown
Outcome(op, error) ==
    /\ bld' = [bld EXCEPT !.op = op, !.error = error, !.built = (error = NoError)]
    /\ UNCHANGED <<table, m_cluster, m_children, or_values, call, prev, lm, tv, heap, cmp, obj, ff, lst, agg>>

\* query_builder::apply_predicate(query, predicate, args, mapping)
ApplyPredicate ==
    /\ bld.op = "parse" /\ bld.clause = "predicate"
    /\ Outcome("apply_predicate",
               apply_comparison(bld.table, bld.path, bld.ndx, bld.count, bld.allow_backlinks))

\* get_sorted_view(table, "<valid comparison> INCLUDE(path)"): the predicate
\* is applied, then the ordering, then the view is made
GetSortedView ==
    /\ bld.op = "parse" /\ bld.clause = "INCLUDE"
    /\ Outcome("get_sorted_view", apply_ordering(bld.table, bld.path, bld.allow_backlinks))

NextBuilder == ApplyPredicate \/ GetSortedView

SpecBuilder == InitBuilder /\ [][NextBuilder]_vars

\* the names that stand for a backlink on some table
BacklinkAliases == {"account_owner"}

\* C24: building an ordering whose INCLUDE path ends in anything other than
\* a backlink column fails with an error and yields no result view.
C24_IncludeEndsInBacklink ==
    (bld.op = "get_sorted_view"
        /\ bld.path[Len(bld.path)].kind = "property"
        /\ bld.path[Len(bld.path)].name \notin BacklinkAliases)
        => (bld.error # NoError /\ ~ bld.built)

\* C24 witness: INCLUDE(account) on person, a path of one valid forward link,
\* is refused for its last part
C24_Witness ==
    /\ bld.op = "get_sorted_view" /\ bld.table = "person"
    /\ bld.path = <<Property("account")>>
    /\ bld.error = <<"Invalid INCLUDE path at [", "0", ", ", "0",
                     "]: the last part of an included path must be a backlink column.">>
    /\ ~ bld.built

\* C25 as stated: referencing $N with M <= N arguments provided fails with
\* exactly "Request for argument at index N but only M arguments are provided".
C25_MissingArgumentPlural ==
    (bld.op = "apply_predicate" /\ bld.ndx >= 0 /\ bld.count <= bld.ndx)
        => /\ ~ bld.built
           /\ bld.error = <<"Request for argument at index ", ToString(bld.ndx), " but only ",
                            ToString(bld.count), " arguments are provided">>

\* C25: referencing $N with M <= N arguments provided fails at build time
\* with "Request for argument at index N but only M arguments are provided"
\* for M >= 2, "... but only 1 argument is provided" for M = 1 and
\* "... but no arguments are provided" for M = 0.
C25_MissingArgument ==
    (bld.op = "apply_predicate" /\ bld.ndx >= 0 /\ bld.count <= bld.ndx)
        => /\ ~ bld.built
           /\ bld.count >= 2 =>
                 bld.error = <<"Request for argument at index ", ToString(bld.ndx), " but only ",
                               ToString(bld.count), " arguments are provided">>
           /\ bld.count = 1 =>
                 bld.error = <<"Request for argument at index ", ToString(bld.ndx), " but only ",
                               "1", " argument is provided">>
           /\ bld.count = 0 =>
                 bld.error = <<"Request for argument at index ", ToString(bld.ndx),
                               " but no arguments are provided">>

\* C25 witness: "age > $1" with one argument provided
C25_Witness ==
    /\ bld.op = "apply_predicate" /\ bld.ndx = 1 /\ bld.count = 1
    /\ bld.error # NoError /\ ~ bld.built

\* C26: with backlinks disabled on the key path mapping, building a query
\* whose key path has a part that is @links.*, written so or through a name
\* of the mapping, fails with an error.
C26_BacklinksDisabled ==
    (bld.op = "apply_predicate" /\ ~ bld.allow_backlinks
        /\ \/ \E i \in DOMAIN bld.path : bld.path[i].kind = "backlink"
           \/ expand(bld.table, bld.path[1]).kind = "backlink")
        => (bld.error # NoError /\ ~ bld.built)

\* C26 witness: account_owner.age on account, a valid path through the
\* mapping's backlink, is refused because backlinks are disabled
C26_Witness ==
    /\ bld.op = "apply_predicate" /\ ~ bld.allow_backlinks /\ bld.table = "account"
    /\ bld.path = <<Property("account_owner"), Property("age")>>
    /\ bld.error = <<"Querying over backlinks is disabled but backlinks were found in ",
                     "the inverse relationship of property '", "account",
                     "' on type '", "person", "'">>

\* ------------------------------------------- ParentNode::find_first, stepwise
\* rows of the cluster the loop runs over
LoopRows == 4

\* what a child's find_first_local(start, end) may return: not_found, or a
\* row not below the start it was given
child_returns(start) == start..LoopRows \cup {not_found}

\* the conditions left to test if every pass began the count again
conds_to_test_renewed(m, start, sz, nb_cond_to_test) == sz - 1

\* the conditions left to test after a pass on which the child returned m:
\* all but this one if the pointer advanced, else one less than before
conds_to_test(m, start, sz, nb_cond_to_test) ==
    (IF m # start THEN sz ELSE nb_cond_to_test) - 1

\* find_first(start, end) entered on a conjunction of sz conditions: the
\* locals before the first test of the while condition
InitLoop ==
    /\ \E start \in 0..LoopRows : \E end \in 0..LoopRows : \E sz \in 1..MaxCond :
          ff = [pc |-> "while", start |-> start, end |-> end, sz |-> sz,
                current_cond |-> 0, nb_cond_to_test |-> sz, ret |-> 0,
                first |-> start, steps |-> 0]
    /\ IdleQuery
    /\ IdleLinks
    /\ IdleView
    /\ IdleHeap
    /\ IdleMixed
    /\ IdleObj
    /\ IdleBuilder
    /\ IdleLists
    /\ IdleAggregate

\* no call makes more passes than this: a pass advances start or leaves one
\* condition less to test
MaxSteps == (LoopRows + 2) * MaxCond

\* one pass of the loop body, the child returning m; first and steps keep
\* the start the call was entered with and the passes made (counted up to
\* MaxSteps)
LoopBody(m) ==
    /\ ff.pc = "while" /\ ff.start < ff.end
    /\ LET nb == conds_to_test(m, ff.start, ff.sz, ff.nb_cond_to_test)
           st == IF m # ff.start THEN m ELSE ff.start
           cc == IF ff.current_cond + 1 = ff.sz THEN 0 ELSE ff.current_cond + 1
       IN  ff' = IF nb = 0
                 THEN [ff EXCEPT !.pc = "done", !.ret = m, !.start = st,
                                 !.nb_cond_to_test = nb, !.steps = Min(@ + 1, MaxSteps)]
                 ELSE [ff EXCEPT !.start = st, !.nb_cond_to_test = nb,
                                 !.current_cond = cc, !.steps = Min(@ + 1, MaxSteps)]
    /\ UNCHANGED <<table, m_cluster, m_children, or_values, call, prev, lm, tv, heap, cmp, obj, bld, lst, agg>>

\* the while condition fails: return not_found
LoopExit ==
    /\ ff.pc = "while" /\ ~ (ff.start < ff.end)
    /\ ff' = [ff EXCEPT !.pc = "done", !.ret = not_found]
    /\ UNCHANGED <<table, m_cluster, m_children, or_values, call, prev, lm, tv, heap, cmp, obj, bld, lst, agg>>

NextLoop ==
    \/ \E m \in child_returns(ff.start) : LoopBody(m)
    \/ LoopExit

\* the loop is sequential code: a step that can be taken is taken
SpecLoop == InitLoop /\ [][NextLoop]_vars /\ WF_vars(NextLoop)

\* C27: ParentNode::find_first(start, end) returns for every finite range if
\* each child's find_first_local returns not_found or a row not below the
\* start it was given, and from one pass of the loop to the next the working
\* start never decreases.
C27_FindFirstTerminates ==
    /\ <>(ff.pc = "done")
    /\ [][ff'.start >= ff.start]_vars

\* C27 witness: a call on two conditions returned a row after the start had
\* been advanced on three passes or more
C27_Witness ==
    /\ ff.pc = "done" /\ ff.sz = 2 /\ ff.ret < ff.end
    /\ ff.ret >= ff.first + 3 /\ ff.steps >= 4

\* ----------------------------------------------- NotNode bound to clusters
\* rows of each of the two clusters
RebindRows == 2

\* a NotNode whose cache outlives the binding to another cluster
cluster_changed_keeps_known(n) == n

\* NotNode::cluster_changed: the known range starts anew for the new cluster
cluster_changed(n) == update_known(n, 0, 0, not_found)

\* NOT(c1 == "a") on a table of two clusters, right after init()
InitRebind ==
    /\ \E l1 \in Leaves(RebindRows, TwoVals) : \E l2 \in Leaves(RebindRows, TwoVals) :
          table = Table(<<Cluster(0, [i \in 1..RebindRows |-> i - 1], [c1 |-> l1]),
                          Cluster(RebindRows, [i \in 1..RebindRows |-> i - 1], [c1 |-> l2])>>,
                        "none")
    /\ m_cluster = 1
    /\ m_children = <<NotNodeInit(<<StringNodeEqual("c1", Some("a"))>>)>>
    /\ call = NoCall
    /\ prev = NoCall
    /\ or_values = <<>>
    /\ IdleLinks
    /\ IdleHeap
    /\ IdleView
    /\ IdleMixed
    /\ IdleObj
    /\ IdleBuilder
    /\ IdleLoop
    /\ IdleLists
    /\ IdleAggregate

\* the executor binds the node to cluster c: set_cluster(c).  The call record
\* keeps the known range and first match the node held before.
ClusterChanged(c) ==
    /\ m_cluster' = c
    /\ m_children' = <<cluster_changed(m_children[1])>>
    /\ call' = [op |-> "cluster_changed", start |-> m_children[1].m_known_range_start,
                end |-> m_children[1].m_known_range_end,
                ret |-> m_children[1].m_first_in_known_range]
    /\ prev' = call
    /\ UNCHANGED <<table, or_values, lm, tv, heap, cmp, obj, bld, ff, lst, agg>>

NextRebind ==
    \/ NextNot
    \/ \E c \in DOMAIN table.clusters : ClusterChanged(c)

SpecRebind == InitRebind /\ [][NextRebind]_vars

Known(n) == <<n.m_known_range_start, n.m_known_range_end, n.m_first_in_known_range>>

\* C29: a find_first_local call on a NotNode with a range disjoint from the
\* known range (start > known_range_end or end < known_range_start, the case
\* find_first_no_overlap is called for) replaces the known range and first
\* match by the new range and its scan result if the new range is wider than
\* the known one, and leaves them unchanged otherwise.
C29_NoOverlapReplacesIfWider ==
    [][(call'.op = "find_first_local"
          /\ (call'.end < m_children[1].m_known_range_start
                \/ call'.start > m_children[1].m_known_range_end))
        => /\ call'.ret = FirstMatch(CurrentCluster, m_children, call'.start, call'.end)
           /\ Known(m_children'[1]) =
                 IF call'.end - call'.start
                       > m_children[1].m_known_range_end - m_children[1].m_known_range_start
                 THEN <<call'.start, call'.end, call'.ret>>
                 ELSE Known(m_children[1])]_vars

\* C29 witness: the last call's range lies above the known range, a row
\* apart from it, and is as wide as it, and the known range is not the call's
C29_Witness ==
    /\ call.op = "find_first_local"
    /\ call.start > m_children[1].m_known_range_end
    /\ call.end - call.start = m_children[1].m_known_range_end - m_children[1].m_known_range_start
    /\ call.ret # not_found

\* ------------------------------------------- fused nodes and the search index
\* C30: once a condition has been fused into a StringNode<Equal>, every later
\* find_first_local on the node is the linear scan for any of the needles
\* and never uses or moves the search-index cursor, also when the column has
\* a search index and when init() is called after the fusion.
C30_FusedBypassesIndex ==
    [][(call'.op = "find_first_local" /\ Len(or_values) >= 2)
        => /\ ~ m_children[1].m_has_search_index
           /\ m_children' = m_children
           /\ call'.ret = find_first_haystack(
                              CurrentCluster.leaf["c1"], m_children[1].m_needles, call'.start,
                              IF call'.end = npos THEN cluster_size(CurrentCluster) ELSE call'.end)]_vars

\* C30 witness: the node was initialised on an indexed column holding its
\* value (the cursor is set up), a condition was fused, init() ran again
\* (m_dT is the unindexed 10), and the scan returned a row that holds another
\* needle than the node's value, with the cursor where init left it
C30_Witness ==
    /\ call.op = "find_first_local" /\ Len(or_values) >= 2
    /\ m_children[1].m_results_end > 0
    /\ m_children[1].m_dT = 10
    /\ m_children[1].m_last_start_key = null_key
    /\ call.ret # not_found
    /\ CurrentCluster.leaf["c1"][call.ret + 1] # ToStringData(m_children[1].m_value)

\* ----------------------------------------------------------- the cost tiers
\* a StringNode<Equal> after table_changed and init() on a column that is a
\* string-enum column or not, with a search index or not
InitTier ==
    /\ \E vals \in Leaves(StrRows, TwoVals) : \E v \in {Some("a"), None} :
       \E idx \in BOOLEAN : \E enum \in BOOLEAN :
          /\ table = Table(SplitClusters(SetToSortedSeq(0..(StrRows - 1)), vals, StrRows), "none")
          /\ m_children = <<StringNodeEqualBase_init(table,
                               [StringNodeEqual("c1", v) EXCEPT !.m_has_search_index = idx,
                                                                 !.m_is_string_enum = enum])>>
          /\ or_values = <<v>>
    /\ m_cluster = 1
    /\ call = NoCall
    /\ prev = NoCall
    /\ IdleLinks
    /\ IdleHeap
    /\ IdleView
    /\ IdleMixed
    /\ IdleObj
    /\ IdleBuilder
    /\ IdleLoop
    /\ IdleLists
    /\ IdleAggregate

\* the query is run, and run again
NextTier ==
    \/ InitCall
    \/ FindFirstLocalStr

SpecTier == InitTier /\ [][NextTier]_vars

\* C40: StringNodeEqualBase::init gives the node one cost tier: dT = 0 when
\* the column has a search index, dT = 1 when it is a string-enum column, and
\* dT = 10 when it is neither.
C40_CostTier ==
    call.op = "init"
        => LET n == m_children[1]
           IN  /\ n.m_has_search_index => n.m_dT = 0
               /\ (n.m_is_string_enum /\ ~ n.m_has_search_index) => n.m_dT = 1
               /\ (~ n.m_is_string_enum /\ ~ n.m_has_search_index) => n.m_dT = 10

InsVals == {StringData("a"), StringData("A"), NullStringData}

\* StringNode<EqualIns> on column col with needle v
StringNodeEqualIns(col, v) == [StringNodeEqual(col, v) EXCEPT !.kind = "StringNodeEqualIns"]

\* the node a query on the indexed column c1 holds before its first init()
NewIndexedNode(kind, v) ==
    [(IF kind = "StringNodeEqualIns" THEN StringNodeEqualIns("c1", v)
                                     ELSE StringNodeEqual("c1", v))
        EXCEPT !.m_has_search_index = TRUE]

\* an indexed column, one or two clusters, keys with a gap, and a
\* case-sensitive or case-insensitive equality node after its first init()
InitRerun ==
    /\ \E K \in {(0..StrRows) \ {1}} :
       \E vals \in Leaves(StrRows, InsVals) :
       \E split \in 1..StrRows :
       \E v \in {Some("a"), None} :
       \E kind \in {"StringNodeEqual", "StringNodeEqualIns"} :
          /\ table = Table(SplitClusters(SetToSortedSeq(K), vals, split), "none")
          /\ m_children = <<StringNodeEqualBase_init(table, NewIndexedNode(kind, v))>>
          /\ or_values = <<v>>
    /\ m_cluster = 1
    /\ call = NoCall
    /\ prev = NoCall
    /\ IdleLinks
    /\ IdleHeap
    /\ IdleView
    /\ IdleMixed
    /\ IdleObj
    /\ IdleBuilder
    /\ IdleLoop
    /\ IdleLists
    /\ IdleAggregate

\* the query is run again: init() on the node; prev keeps the cursor the
\* run before left behind
InitAgain ==
    /\ m_children' = <<StringNodeEqualBase_init(table, m_children[1])>>
    /\ call' = [op |-> "init", start |-> 0, end |-> 0, ret |-> 0]
    /\ prev' = [op |-> "cursor", ndx |-> m_children[1].m_results_ndx,
                results_end |-> m_children[1].m_results_end,
                last_start_key |-> m_children[1].m_last_start_key]
    /\ UNCHANGED <<table, m_cluster, or_values, lm, tv, heap, cmp, obj, bld, ff, lst, agg>>

NextRerun ==
    \/ InitAgain
    \/ \E c \in DOMAIN table.clusters : SetCluster(c)
    \/ FindFirstLocalStr

SpecRerun == InitRerun /\ [][NextRerun]_vars

RECURSIVE ScanCluster(_, _, _)
\* the executor's scan of one cluster from row start on: find_first_local
\* from the row after each match; the keys found and the node afterwards
ScanCluster(cl, n, start) ==
    IF start >= cluster_size(cl) THEN [keys |-> <<>>, node |-> n]
    ELSE LET r == StringNodeEqualBase_find_first_local(cl, n, start, cluster_size(cl))
         IN  IF r.ret = not_found THEN [keys |-> <<>>, node |-> r.node]
             ELSE LET rest == ScanCluster(cl, r.node, r.ret + 1)
                  IN  [keys |-> <<get_real_key(cl, r.ret)>> \o rest.keys, node |-> rest.node]

RECURSIVE RunFrom(_, _, _)
\* a run of the query: the clusters scanned in order from cluster c on, each
\* from its first row; the keys found
RunFrom(tbl, n, c) ==
    IF c > Len(tbl.clusters) THEN <<>>
    ELSE LET s == ScanCluster(tbl.clusters[c], n, 0)
         IN  s.keys \o RunFrom(tbl, s.node, c + 1)

\* C35: calling init again on an indexed equality node resets the index
\* cursor, so a scan restarted from the first row returns the same results
\* as the first run, wherever the run before stopped.
C35_InitResetsCursor ==
    call.op = "init"
        => LET n     == m_children[1]
               first == StringNodeEqualBase_init(table, NewIndexedNode(n.kind, n.m_value))
           IN  /\ n.m_results_ndx = n.m_results_start
               /\ RunFrom(table, n, 1) = RunFrom(table, first, 1)

\* init was called on a node whose cursor had run past the last of several
\* index matches, and the run after it finds them all again
C35_Witness ==
    /\ call.op = "init"
    /\ prev.op = "cursor"
    /\ prev.ndx = prev.results_end
    /\ prev.last_start_key > get_real_key(table.clusters[1], 0)
    /\ Len(RunFrom(table, m_children[1], 1)) >= 2

\* ------------------------------------------- Mixed::compare as an ordering
\* a.compare(b), b.compare(a) and a.compare(a) on two values of one type
CompareBothWays ==
    /\ cmp.op = "new"
    /\ cmp' = [op |-> "order", a |-> cmp.a, b |-> cmp.b, type |-> cmp.type,
               ret  |-> Mixed_compare(cmp.a, cmp.b),
               rev  |-> Mixed_compare(cmp.b, cmp.a),
               self |-> Mixed_compare(cmp.a, cmp.a)]
    /\ UNCHANGED <<table, m_cluster, m_children, or_values, call, prev, lm, tv, heap, obj, bld, ff, lst, agg>>

NextOrder == CompareBothWays

SpecOrder == InitMixed /\ [][NextOrder]_vars

\* -1, 0 or 1 as x is negative, zero or positive
Sign(x) == IF x < 0 THEN -1 ELSE IF x > 0 THEN 1 ELSE 0

\* C36: for values of one type, null and NaN among them, Mixed::compare is a
\* total order: compare(a,a) = 0, compare(a,b) and compare(b,a) have
\* opposite signs or are both 0, and compare(a,b) <= 0 together with
\* compare(b,c) <= 0 implies compare(a,c) <= 0.
C36_TotalOrder ==
    cmp.op = "order"
        => /\ cmp.self = 0
           /\ Sign(cmp.ret) = 0 - Sign(cmp.rev)
           /\ \A c \in MixedValues(cmp.type) :
                  (cmp.ret <= 0 /\ Mixed_compare(cmp.b, c) <= 0)
                      => Mixed_compare(cmp.a, c) <= 0

\* a NaN compared with the negative infinity is below it, the infinity is
\* above the NaN, and null is below both
C36_Witness ==
    /\ cmp.op = "order"
    /\ cmp.type = "type_Double"
    /\ ~ is_null(cmp.a) /\ isnan(DoubleFormat, cmp.a.val)
    /\ ~ is_null(cmp.b)
    /\ sign_bit(DoubleFormat, cmp.b.val) = 1
    /\ exponent(DoubleFormat, cmp.b.val) = Pow2(ExpBits) - 1
    /\ mantissa(DoubleFormat, cmp.b.val) = 0
    /\ cmp.ret < 0 /\ cmp.rev > 0
    /\ Mixed_compare(NullMixed, cmp.a) < 0

\* ------------------------------------------------- ConstLstIf::sort, distinct
\* longest list sorted, and the largest number it holds
SortLen == 3

MaxElem == 1

\* a list element: an integer, or for a list of doubles a number or a NaN
Elem(n) == [nan |-> FALSE, v |-> n]

NaN == [nan |-> TRUE, v |-> 0]

\* the element types modelled, of the types ConstLstIf is instantiated for
ListTypes == {"int64_t", "double"}

Elems(type) == {Elem(n) : n \in 0..MaxElem} \cup (IF type = "double" THEN {NaN} ELSE {})

\* operator<, operator> and operator== of the element type; every comparison
\* with a NaN is false
elem_less(a, b) == ~ a.nan /\ ~ b.nan /\ a.v < b.v

elem_greater(a, b) == elem_less(b, a)

elem_equal(a, b) == ~ a.nan /\ ~ b.nan /\ a.v = b.v

\* the comparator sort hands to std::sort, on indices into tree
sort_comp(tree, ascending, i1, i2) ==
    IF ascending THEN elem_less(tree[i1 + 1], tree[i2 + 1])
                 ELSE elem_greater(tree[i1 + 1], tree[i2 + 1])

\* the arrangements of the sequence s
Arrangements(s) ==
    {[i \in 1..Len(s) |-> s[f[i]]] :
        f \in {g \in [1..Len(s) -> 1..Len(s)] : \A i, j \in 1..Len(s) : g[i] = g[j] => i = j}}

\* comp is a strict weak ordering of the elements of s: being incomparable
\* is transitive (comp itself is irreflexive and transitive for < and >)
StrictWeakOrdering(tree, ascending, s) ==
    \A i, j, k \in Range(s) \cap (0..(Len(tree) - 1)) :
        (/\ ~ sort_comp(tree, ascending, i, j) /\ ~ sort_comp(tree, ascending, j, i)
         /\ ~ sort_comp(tree, ascending, j, k) /\ ~ sort_comp(tree, ascending, k, j))
            => (~ sort_comp(tree, ascending, i, k) /\ ~ sort_comp(tree, ascending, k, i))

\* the calls of comp by std::sort are defined: every index is one of the
\* list, and comp is a strict weak ordering
SortDefined(tree, ascending, s) ==
    /\ Range(s) \subseteq 0..(Len(tree) - 1)
    /\ StrictWeakOrdering(tree, ascending, s)

\* std::sort(b, e, comp): an arrangement in which no element precedes one
\* that comp puts before it, equivalent elements in any order; the behaviour
\* is undefined, and any arrangement a possible outcome, if comp is not a
\* strict weak ordering or reads past the end of the list
std_sort(tree, ascending, s) ==
    IF SortDefined(tree, ascending, s)
    THEN {p \in Arrangements(s) :
             \A i, j \in 1..Len(p) : i < j => ~ sort_comp(tree, ascending, p[j], p[i])}
    ELSE Arrangements(s)

\* ConstLstIf<T>::sort, the indices handed to std::sort
sort_indices(tree, indices) ==
    LET sz  == Len(tree)
        kept == IF sz < Len(indices) THEN <<>> ELSE indices
    IN  kept \o [i \in 1..(sz - Len(kept)) |-> Len(kept) + i - 1]

\* ConstLstIf<T>::sort: the vectors it can leave in indices
ConstLstIf_sort(tree, indices, ascending) ==
    std_sort(tree, ascending, sort_indices(tree, indices))

RECURSIVE std_unique(_, _)
\* std::unique with the predicate of distinct, followed by the erase: the
\* first index of every run of indices holding equal values
std_unique(tree, s) ==
    IF Len(s) <= 1 THEN s
    ELSE LET rest == std_unique(tree, Tail(s))
         IN  IF elem_equal(tree[s[1] + 1], tree[rest[1] + 1])
             THEN <<s[1]>> \o Tail(rest)
             ELSE <<s[1]>> \o rest

\* ConstLstIf<T>::distinct: the vectors it can leave in indices
ConstLstIf_distinct(tree, sort_order) ==
    {LET u == std_unique(tree, sorted)
     IN  IF sort_order = "none" THEN SetToSortedSeq(Range(u)) ELSE u :
        sorted \in ConstLstIf_sort(tree, <<>>, sort_order # "descending")}

\* an empty list of either type and an empty indices vector
InitSort ==
    /\ \E type \in ListTypes :
          lst = [op |-> "new", type |-> type, tree |-> <<>>, indices |-> <<>>,
                 before |-> <<>>, arg |-> "none"]
    /\ IdleQuery
    /\ IdleLinks
    /\ IdleView
    /\ IdleHeap
    /\ IdleMixed
    /\ IdleObj
    /\ IdleBuilder
    /\ IdleLoop
    /\ IdleAggregate

\* Lst<T>::insert(ndx, value)
ListInsert(ndx, value) ==
    /\ Len(lst.tree) < SortLen
    /\ lst' = [lst EXCEPT !.op = "insert", !.before = lst.indices, !.arg = "none",
                          !.tree = SubSeq(@, 1, ndx) \o <<value>> \o SubSeq(@, ndx + 1, Len(@))]
    /\ UNCHANGED <<table, m_cluster, m_children, or_values, call, prev, lm, tv, heap, cmp, obj, bld, ff, agg>>

\* Lst<T>::remove(ndx)
ListRemove(ndx) ==
    /\ lst' = [lst EXCEPT !.op = "remove", !.before = lst.indices, !.arg = "none",
                          !.tree = SubSeq(@, 1, ndx) \o SubSeq(@, ndx + 2, Len(@))]
    /\ UNCHANGED <<table, m_cluster, m_children, or_values, call, prev, lm, tv, heap, cmp, obj, bld, ff, agg>>

\* list.sort(indices, ascending) on the vector the caller holds; before
\* keeps the vector as it was handed in
ListSort(ascending) ==
    /\ \E p \in ConstLstIf_sort(lst.tree, lst.indices, ascending) :
          lst' = [lst EXCEPT !.op = "sort", !.before = lst.indices, !.indices = p,
                             !.arg = IF ascending THEN "ascending" ELSE "descending"]
    /\ UNCHANGED <<table, m_cluster, m_children, or_values, call, prev, lm, tv, heap, cmp, obj, bld, ff, agg>>

\* list.distinct(indices, sort_order) on the vector the caller holds
ListDistinct(sort_order) ==
    /\ \E p \in ConstLstIf_distinct(lst.tree, sort_order) :
          lst' = [lst EXCEPT !.op = "distinct", !.before = lst.indices, !.indices = p,
                             !.arg = sort_order]
    /\ UNCHANGED <<table, m_cluster, m_children, or_values, call, prev, lm, tv, heap, cmp, obj, bld, ff, agg>>

NextSort ==
    \/ \E ndx \in 0..Len(lst.tree) : \E value \in Elems(lst.type) : ListInsert(ndx, value)
    \/ \E ndx \in 0..(Len(lst.tree) - 1) : ListRemove(ndx)
    \/ \E ascending \in BOOLEAN : ListSort(ascending)
    \/ \E sort_order \in {"none", "ascending", "descending"} : ListDistinct(sort_order)

SpecSort == InitSort /\ [][NextSort]_vars

\* the indices at which a value of the list occurs for the first time
FirstOccurrences(tree) ==
    {i \in 0..(Len(tree) - 1) : \A j \in 0..(i - 1) : ~ elem_equal(tree[j + 1], tree[i + 1])}

\* C37: ConstLstIf::distinct(indices, no sort order) leaves indices in
\* ascending order holding, for each distinct value in the list, exactly one
\* index, namely the index of that value's first occurrence.
C37_DistinctKeepsFirst ==
    (lst.op = "distinct" /\ lst.arg = "none")
        => lst.indices = SetToSortedSeq(FirstOccurrences(lst.tree))

\* s is empty or what a sort of a list of Len(s) elements left behind: a
\* permutation of 0..Len(s)-1
IsPermutation(s) == Range(s) = 0..(Len(s) - 1)

\* C38: after ConstLstIf::sort(indices, ascending), including when the same
\* indices vector is reused after the list has grown or shrunk since the
\* previous call, indices is a permutation of 0..size()-1 ordered by list
\* value in the requested direction.
C38_SortIsOrderedPermutation ==
    (lst.op = "sort" /\ IsPermutation(lst.before))
        => /\ Len(lst.indices) = Len(lst.tree)
           /\ Range(lst.indices) = 0..(Len(lst.tree) - 1)
           /\ \A i, j \in 1..Len(lst.indices) :
                  i < j => ~ sort_comp(lst.tree, lst.arg = "ascending",
                                       lst.indices[j], lst.indices[i])

\* ------------------------------------------------------------ Lst<ObjKey>
\* the keys of the objects of the origin table, each with one link list in
\* the column, and of the objects of the target table
Origins == {0, 1}

Targets == {0, 1}

\* number of entries of the sequence s equal to x
Occurrences(s, x) == Cardinality({i \in DOMAIN s : s[i] = x})

\* BPlusTree<ObjKey>::insert, set and erase at the 0-based position ndx
tree_insert(s, ndx, x) == SubSeq(s, 1, ndx) \o <<x>> \o SubSeq(s, ndx + 1, Len(s))

tree_set(s, ndx, x) == [s EXCEPT ![ndx + 1] = x]

tree_erase(s, ndx) == SubSeq(s, 1, ndx) \o SubSeq(s, ndx + 2, Len(s))

\* BPlusTree<ObjKey>::find_first
tree_find_first(s, x) ==
    IF Occurrences(s, x) = 0 THEN npos ELSE SetMin({i \in DOMAIN s : s[i] = x}) - 1

\* the tables: the list of every origin object, the entries of the backlink
\* column of every target object, and the target objects that exist
Store(lists, backlinks, valid) == [lists |-> lists, backlinks |-> backlinks, valid |-> valid]

\* CascadeState: the objects queued for deletion
CascadeState == <<>>

\* Obj::add_backlink: ArrayBacklink::add
add_backlink(S, target_key, origin_key) ==
    [S EXCEPT !.backlinks[target_key] = Append(@, origin_key)]

\* Obj::remove_one_backlink: ArrayBacklink::remove takes one entry for the
\* origin out and tells whether it was the last entry of the target
remove_one_backlink(S, target_key, origin_key) ==
    LET ndx == tree_find_first(S.backlinks[target_key], origin_key)
        S1  == [S EXCEPT !.backlinks[target_key] = tree_erase(@, ndx)]
    IN  [store |-> S1, ret |-> S1.backlinks[target_key] = <<>>]

\* ConstObj::get_backlink_count(origin_table, origin_col)
get_backlink_count(S, target_key) == Len(S.backlinks[target_key])

\* ConstObj::has_backlinks, the target table having the one backlink column
has_backlinks(S, target_key) == get_backlink_count(S, target_key) > 0

\* CascadeState::enqueue_for_cascade: an object that a strong link pointed
\* to and that has no backlinks left is queued for deletion
enqueue_for_cascade(S, state, target_key, strong_links, last_removed) ==
    IF strong_links /\ ~ has_backlinks(S, target_key)
    THEN [state |-> Append(state, target_key), ret |-> TRUE]
    ELSE [state |-> state, ret |-> FALSE]

\* Obj::set_backlink
set_backlink(S, origin_key, new_key) ==
    IF new_key # null_key THEN add_backlink(S, new_key, origin_key) ELSE S

\* Obj::remove_backlink
remove_backlink(S, state, strong_links, origin_key, old_key) ==
    IF old_key # null_key
    THEN LET r == remove_one_backlink(S, old_key, origin_key)
             e == enqueue_for_cascade(r.store, state, old_key, strong_links, r.ret)
         IN  [store |-> r.store, state |-> e.state, recurse |-> e.ret]
    ELSE [store |-> S, state |-> state, recurse |-> FALSE]

\* a replace_backlink that leaves the backlink of the old target in place
replace_backlink_keeps_old(S, state, strong_links, origin_key, old_key, new_key) ==
    [store |-> set_backlink(S, origin_key, new_key), state |-> state, recurse |-> FALSE]

\* Obj::replace_backlink
replace_backlink(S, state, strong_links, origin_key, old_key, new_key) ==
    LET r == remove_backlink(S, state, strong_links, origin_key, old_key)
    IN  [r EXCEPT !.store = set_backlink(r.store, origin_key, new_key)]

\* Obj::nullify_link on a list column: the first entry holding the target
\* is erased from the origin's list
nullify_link(S, origin_key, target_key) ==
    [S EXCEPT !.lists[origin_key] = tree_erase(@, tree_find_first(@, target_key))]

RECURSIVE nullify_links(_, _, _)
\* the erase of a target object: nullify_link for every entry of its
\* backlink column
nullify_links(S, origins, target_key) ==
    IF origins = <<>> THEN S
    ELSE nullify_links(nullify_link(S, Head(origins), target_key), Tail(origins), target_key)

RECURSIVE remove_recursive(_, _)
\* Table::remove_recursive: every queued object that still exists is erased,
\* and with it its backlinks and the links to it
remove_recursive(S, state) ==
    IF state = <<>> THEN S
    ELSE LET t  == Head(state)
             S1 == IF t \in S.valid
                   THEN LET n == nullify_links(S, S.backlinks[t], t)
                        IN  [n EXCEPT !.backlinks[t] = <<>>, !.valid = @ \ {t}]
                   ELSE S
         IN  remove_recursive(S1, Tail(state))

\* Lst<ObjKey>::do_set without the call of remove_recursive
do_set(S, strong_links, origin_key, ndx, target_key) ==
    LET old_key == S.lists[origin_key][ndx + 1]
        r == replace_backlink(S, CascadeState, strong_links, origin_key, old_key, target_key)
    IN  [r EXCEPT !.store.lists[origin_key] = tree_set(@, ndx, target_key)]

\* Lst<ObjKey>::do_insert
do_insert(S, origin_key, ndx, target_key) ==
    LET S1 == set_backlink(S, origin_key, target_key)
    IN  [S1 EXCEPT !.lists[origin_key] = tree_insert(@, ndx, target_key)]

\* Lst<ObjKey>::do_remove without the call of remove_recursive
do_remove(S, strong_links, origin_key, ndx) ==
    LET old_key == S.lists[origin_key][ndx + 1]
        r == remove_backlink(S, CascadeState, strong_links, origin_key, old_key)
    IN  [r EXCEPT !.store.lists[origin_key] = tree_erase(@, ndx)]

RECURSIVE clear_weak(_, _, _)
\* Lst<ObjKey>::clear, the loop taken when the links are not strong, from
\* the entry before ndx down
clear_weak(S, origin_key, ndx) ==
    IF ndx = 0 THEN S
    ELSE LET r == do_set(S, FALSE, origin_key, ndx - 1, null_key)
         IN  clear_weak([r.store EXCEPT !.lists[origin_key] = tree_erase(@, ndx - 1)],
                        origin_key, ndx - 1)

RECURSIVE clear_strong_counts_own(_, _, _, _)
\* a loop that counts the backlinks remaining from the list's own object only
clear_strong_counts_own(S, state, origin_key, ndx) ==
    IF ndx >= Len(S.lists[origin_key]) THEN [store |-> S, state |-> state]
    ELSE LET target_key == S.lists[origin_key][ndx + 1]
             r == remove_one_backlink(S, target_key, origin_key)
             num_remaining == Occurrences(r.store.backlinks[target_key], origin_key)
         IN  clear_strong_counts_own(r.store,
                                     IF num_remaining = 0 THEN Append(state, target_key) ELSE state,
                                     origin_key, ndx + 1)

RECURSIVE clear_strong(_, _, _, _)
\* Lst<ObjKey>::clear, the loop taken when the links are strong, from entry
\* ndx on: the targets losing their last backlink through the column are
\* queued for deletion
clear_strong(S, state, origin_key, ndx) ==
    IF ndx >= Len(S.lists[origin_key]) THEN [store |-> S, state |-> state]
    ELSE LET target_key == S.lists[origin_key][ndx + 1]
             r == remove_one_backlink(S, target_key, origin_key)
             num_remaining == get_backlink_count(r.store, target_key)
         IN  clear_strong(r.store,
                          IF num_remaining = 0 THEN Append(state, target_key) ELSE state,
                          origin_key, ndx + 1)

\* Lst<ObjKey>::clear up to the call of remove_recursive
clear(S, strong_links, origin_key) ==
    IF Len(S.lists[origin_key]) > 0
    THEN IF ~ strong_links
         THEN [store |-> clear_weak(S, origin_key, Len(S.lists[origin_key])),
               state |-> CascadeState]
         ELSE LET c == clear_strong(S, CascadeState, origin_key, 0)
              IN  [store |-> [c.store EXCEPT !.lists[origin_key] = <<>>], state |-> c.state]
    ELSE [store |-> S, state |-> CascadeState]

\* the tables of lst
LnkStore == Store(lst.lists, lst.backlinks, lst.valid)

\* empty lists in a column of strong or of weak links, every target present
InitLnk ==
    /\ \E strong \in BOOLEAN :
          lst = [op |-> "new", strong |-> strong,
                 lists |-> [o \in Origins |-> <<>>],
                 backlinks |-> [t \in Targets |-> <<>>],
                 valid |-> Targets,
                 origin |-> 0, before |-> [o \in Origins |-> <<>>], deleted |-> <<>>]
    /\ IdleQuery
    /\ IdleLinks
    /\ IdleView
    /\ IdleHeap
    /\ IdleMixed
    /\ IdleObj
    /\ IdleBuilder
    /\ IdleLoop
    /\ IdleAggregate

\* the state an operation on the list of origin o leaves: the tables S, the
\* lists as they were before, and the objects the operation queued for deletion
AfterLnk(op, o, S, state) ==
    [op |-> op, strong |-> lst.strong,
     lists |-> S.lists, backlinks |-> S.backlinks, valid |-> S.valid,
     origin |-> o, before |-> lst.lists, deleted |-> state]

\* Lst<ObjKey>::do_insert(ndx, target_key) on the list of o
DoInsert(o, ndx, target_key) ==
    /\ Len(lst.lists[o]) < MaxList
    /\ target_key \in lst.valid
    /\ lst' = AfterLnk("do_insert", o, do_insert(LnkStore, o, ndx, target_key), CascadeState)
    /\ UNCHANGED <<table, m_cluster, m_children, or_values, call, prev, lm, tv, heap, cmp, obj, bld, ff, agg>>

\* Lst<ObjKey>::do_set(ndx, target_key) on the list of o
DoSet(o, ndx, target_key) ==
    /\ target_key \in lst.valid
    /\ LET r == do_set(LnkStore, lst.strong, o, ndx, target_key)
       IN  lst' = AfterLnk("do_set", o,
                           IF r.recurse THEN remove_recursive(r.store, r.state) ELSE r.store,
                           r.state)
    /\ UNCHANGED <<table, m_cluster, m_children, or_values, call, prev, lm, tv, heap, cmp, obj, bld, ff, agg>>

\* Lst<ObjKey>::do_remove(ndx) on the list of o
DoRemove(o, ndx) ==
    /\ LET r == do_remove(LnkStore, lst.strong, o, ndx)
       IN  lst' = AfterLnk("do_remove", o,
                           IF r.recurse THEN remove_recursive(r.store, r.state) ELSE r.store,
                           r.state)
    /\ UNCHANGED <<table, m_cluster, m_children, or_values, call, prev, lm, tv, heap, cmp, obj, bld, ff, agg>>

\* Lst<ObjKey>::clear() on the list of o
Clear(o) ==
    /\ LET r == clear(LnkStore, lst.strong, o)
       IN  lst' = AfterLnk("clear", o, remove_recursive(r.store, r.state), r.state)
    /\ UNCHANGED <<table, m_cluster, m_children, or_values, call, prev, lm, tv, heap, cmp, obj, bld, ff, agg>>

NextLnk ==
    \/ \E o \in Origins : \E ndx \in 0..Len(lst.lists[o]) : \E t \in Targets : DoInsert(o, ndx, t)
    \/ \E o \in Origins : \E ndx \in 0..(Len(lst.lists[o]) - 1) : \E t \in Targets : DoSet(o, ndx, t)
    \/ \E o \in Origins : \E ndx \in 0..(Len(lst.lists[o]) - 1) : DoRemove(o, ndx)
    \/ \E o \in Origins : Clear(o)

SpecLnk == InitLnk /\ [][NextLnk]_vars

\* C33: for link lists, do_insert, do_set, do_remove and clear keep forward
\* links and backlinks in one-to-one correspondence: after each operation,
\* the number of backlink entries that target t holds for origin object o
\* through this column equals the number of occurrences of t in o's list.
C33_BacklinksMirrorLinks ==
    \A o \in Origins : \A t \in Targets :
        Occurrences(lst.backlinks[t], o) = Occurrences(lst.lists[o], t)

\* do_set replaced one of two entries for a target by another target that
\* the list held already
C33_Witness ==
    /\ lst.op = "do_set"
    /\ \E t \in Targets : \E u \in Targets \ {t} :
          /\ Occurrences(lst.before[lst.origin], t) = 2
          /\ Occurrences(lst.lists[lst.origin], t) = 1
          /\ Occurrences(lst.backlinks[u], lst.origin) = 1
          /\ Occurrences(lst.backlinks[t], lst.origin) = 1

\* C34: Lst<ObjKey>::clear on a strong-link column leaves the list empty and
\* schedules a target object for cascade deletion exactly when the clear
\* removed that target's last backlink through this column, scheduling each
\* such target at most once even if it occurred several times in the list.
C34_ClearSchedulesLast ==
    (lst.op = "clear" /\ lst.strong)
        => /\ lst.lists[lst.origin] = <<>>
           /\ \A t \in Targets :
                 Occurrences(lst.deleted, t) =
                     IF /\ Occurrences(lst.before[lst.origin], t) > 0
                        /\ \A o \in Origins \ {lst.origin} : Occurrences(lst.before[o], t) = 0
                     THEN 1 ELSE 0

\* a strong list holding the same target twice, which no other list links
\* to, was cleared and the target scheduled once
C34_Witness ==
    /\ lst.op = "clear" /\ lst.strong
    /\ \E t \in Targets : lst.before[lst.origin] = <<t, t>> /\ lst.deleted = <<t>>

\* ------------------------------------------------ ParentNode::aggregate_local
\* rows of the cluster aggregated over, and the largest local_limit
AggRows == 3

AggLimit == 2

\* the children of a node in its own m_children: the node itself first, the
\* others after it in their order
gather_children(sz, this) == <<this>> \o SelectSeq([i \in 1..sz |-> i], LAMBDA i : i # this)

RECURSIVE test_children(_, _, _, _, _)
\* ParentNode::aggregate_local, the loop over m_children[1..] at row r from
\* the c-th on: whether all of them match at r, and the children afterwards
test_children(cl, children, order, c, r) ==
    IF c > Len(order) THEN [match |-> TRUE, children |-> children]
    ELSE LET tested(l) ==
                 IF l.ret # r
                 THEN [match |-> FALSE, children |-> [children EXCEPT ![order[c]] = l.node]]
                 ELSE test_children(cl, [children EXCEPT ![order[c]] = l.node], order, c + 1, r)
         IN  CHOOSE t \in {tested(l) : l \in {find_first_local(cl, children[order[c]], r, r + 1)}} : TRUE

\* QueryState::match as the action callback: false once the state holds as
\* many matches as its limit
column_action(st_limit, trace) == Len(trace) < st_limit

RECURSIVE aggregate_loop(_, _, _, _, _, _, _, _, _)
\* ParentNode::aggregate_local, the for loop from the state (r, local_matches):
\* the value returned, the children afterwards and the rows handed to the
\* callback; l is what find_first_local on this node returned, t what the
\* test of the other children at l.ret gave
aggregate_loop(cl, children, order, end, local_limit, st_limit, r, local_matches, trace) ==
    IF local_matches = local_limit
    THEN [ret |-> r + 1, children |-> children, trace |-> trace]
    ELSE LET tested(l, t) ==
                 LET tr == IF t.match THEN Append(trace, l.ret) ELSE trace
                 IN  IF t.match /\ ~ column_action(st_limit, tr)
                     THEN [ret |-> not_found, children |-> t.children, trace |-> tr]
                     ELSE aggregate_loop(cl, t.children, order, end, local_limit, st_limit,
                                         l.ret, local_matches + 1, tr)
             found(l) ==
                 LET ch == [children EXCEPT ![order[1]] = l.node]
                 IN  IF l.ret = not_found
                     THEN [ret |-> end, children |-> ch, trace |-> trace]
                     ELSE CHOOSE a \in {tested(l, t) : t \in {test_children(cl, ch, order, 2, l.ret)}} : TRUE
         IN  CHOOSE a \in {found(l) : l \in {find_first_local(cl, children[order[1]], r + 1, end)}} : TRUE

\* ParentNode::aggregate_local called on the child this of the conjunction
aggregate_local(cl, children, this, start, end, local_limit, st_limit) ==
    aggregate_loop(cl, children, gather_children(Len(children), this), end,
                   local_limit, st_limit, start - 1, 0, <<>>)

\* the condition nodes aggregated over: an equality and a negated equality
AggNodes ==
    {StringNodeEqual("c1", Some("a")), NotNodeInit(<<StringNodeEqual("c2", Some("a"))>>)}

\* a conjunction of up to MaxCond condition nodes on a cluster of AggRows
\* rows, right after init()
InitAgg ==
    /\ \E l1 \in Leaves(AggRows, TwoVals) : \E l2 \in Leaves(AggRows, TwoVals) :
          table = Table(<<Cluster(0, [i \in 1..AggRows |-> i - 1], [c1 |-> l1, c2 |-> l2])>>, "none")
    /\ m_cluster = 1
    /\ m_children \in SeqsUpTo(AggNodes, MaxCond)
    /\ call = NoCall
    /\ prev = NoCall
    /\ or_values = <<>>
    /\ agg = [op |-> "new", start |-> 0, end |-> 0, ret |-> 0, trace |-> <<>>]
    /\ IdleLinks
    /\ IdleHeap
    /\ IdleView
    /\ IdleMixed
    /\ IdleObj
    /\ IdleBuilder
    /\ IdleLoop
    /\ IdleLists

\* Query::aggregate_internal calls aggregate_local(st, start, end,
\* local_limit, source_column) on one of the children
AggregateLocal(this, start, end, local_limit, st_limit) ==
    /\ \E a \in {aggregate_local(CurrentCluster, m_children, this, start, end, local_limit, st_limit)} :
           /\ m_children' = a.children
           /\ agg' = [op |-> "aggregate_local", start |-> start, end |-> end,
                      ret |-> a.ret, trace |-> a.trace]
    /\ UNCHANGED <<table, m_cluster, or_values, call, prev, lm, tv, heap, cmp, obj, bld, ff, lst>>

NextAgg ==
    \E this \in DOMAIN m_children :
    \E start \in 0..(AggRows - 1) : \E end \in (start + 1)..AggRows :
    \E local_limit \in 1..AggLimit : \E st_limit \in {1, AggRows + 1} :
        AggregateLocal(this, start, end, local_limit, st_limit)

SpecAgg == InitAgg /\ [][NextAgg]_vars

\* C31: ParentNode::aggregate_local(st, start, end, local_limit, ...) invokes
\* the action callback only for rows r of [start, end) at which this node
\* and every other child condition match, each such row at most once and in
\* strictly increasing row order.
C31_CallbackOnMatchesInOrder ==
    agg.op = "aggregate_local"
        => /\ \A i \in 1..Len(agg.trace) :
                 agg.trace[i] \in MatchSet(CurrentCluster, m_children, agg.start, agg.end)
           /\ \A i, j \in 1..Len(agg.trace) : i < j => agg.trace[i] < agg.trace[j]

\* C32: when aggregate_local returns a position p other than size_t(-1),
\* every conjunction match in [start, min(p, end)) has been passed to the
\* action callback exactly once and no row at or after p has, so a caller
\* resuming at p neither skips nor repeats a match.
C32_ResumeNeitherSkipsNorRepeats ==
    (agg.op = "aggregate_local" /\ agg.ret # not_found)
        => /\ \A r \in MatchSet(CurrentCluster, m_children, agg.start, Min(agg.ret, agg.end)) :
                 Occurrences(agg.trace, r) = 1
           /\ \A i \in 1..Len(agg.trace) : agg.trace[i] < agg.ret

====
